---------------------------- MODULE Spec2Model ----------------------------
(***************************************************************************)
(* Face-search service: ingest of photo archives into a per-collection     *)
(* embeddings index (endpoints/upload_collection.py), search against that  *)
(* index (endpoints/search_photos.py), the storage and metadata clients    *)
(* they call (services/r2_storage.py, services/convex_client.py) and the   *)
(* earlier thread-pool pipeline (app.py).                                  *)
(*                                                                         *)
(* Strings are sequences of one-character strings, so that the filename    *)
(* normaliser and the archive filter work on characters as the code does.  *)
(* Every step of a handler that talks to the object store or the metadata  *)
(* store is one action: handlers of different requests run in different    *)
(* server processes and interleave at those calls.                         *)
(***************************************************************************)
EXTENDS Integers, Sequences, FiniteSets, TLC

\* ------------------------------------------------------------------ bounds
\* Number of storage/metadata calls that may fail in one behaviour.
MaxFaults == 1
\* The longest list of member paths given to the normalizer and to the unpackers.
MaxPaths == 3

\* ------------------------------------------------------- program constants
\* upload_collection.py:133 and :286, the preview list holds at most 50 keys.
PreviewCap == 50

\* ------------------------------------------------------------ characters
UpperChars == <<"A","B","C","D","E","F","G","H","I","J","K","L","M",
                "N","O","P","Q","R","S","T","U","V","W","X","Y","Z">>
LowerChars == <<"a","b","c","d","e","f","g","h","i","j","k","l","m",
                "n","o","p","q","r","s","t","u","v","w","x","y","z">>
DigitChars == <<"0","1","2","3","4","5","6","7","8","9">>

Range(f) == {f[i] : i \in DOMAIN f}

\* The character class [A-Za-z0-9._-] of normalize_filename's re.sub.
SafeChars == Range(UpperChars) \cup Range(LowerChars) \cup Range(DigitChars)
             \cup {".", "_", "-"}

\* str.lower() on one character.
LowerChar(c) ==
    IF c \in Range(UpperChars)
    THEN LowerChars[CHOOSE i \in DOMAIN UpperChars : UpperChars[i] = c]
    ELSE c

Lower(s) == [i \in DOMAIN s |-> LowerChar(s[i])]

StartsWith(s, p) == Len(s) >= Len(p) /\ SubSeq(s, 1, Len(p)) = p
EndsWith(s, p) == Len(s) >= Len(p) /\ SubSeq(s, Len(s) - Len(p) + 1, Len(s)) = p

\* str(counter) for a non-negative integer.
RECURSIVE Decimal(_)
Decimal(n) ==
    IF n < 10 THEN <<DigitChars[n + 1]>>
    ELSE Decimal(n \div 10) \o <<DigitChars[(n % 10) + 1]>>

\* ------------------------------------------------------------- pathlib
RECURSIVE SplitOn(_, _, _)
SplitOn(s, cur, acc) ==
    IF s = <<>> THEN Append(acc, cur)
    ELSE IF Head(s) = "/" THEN SplitOn(Tail(s), <<>>, Append(acc, cur))
    ELSE SplitOn(Tail(s), Append(cur, Head(s)), acc)

\* Path(filename).name: the last component, empty and "." components dropped.
PathName(s) ==
    LET parts == SelectSeq(SplitOn(s, <<>>, <<>>),
                           LAMBDA p : p # <<>> /\ p # <<".">>)
    IN IF parts = <<>> THEN <<>> ELSE parts[Len(parts)]

\* name.rfind('.') as a 1-based position, 0 when there is no dot.
LastDot(s) ==
    IF \E i \in DOMAIN s : s[i] = "."
    THEN CHOOSE i \in DOMAIN s : s[i] = "." /\ \A j \in DOMAIN s : s[j] = "." => j <= i
    ELSE 0

\* Path(name).suffix and Path(name).stem for a name without separators.
PathSuffix(s) ==
    LET i == LastDot(s)
    IN IF i > 1 /\ i < Len(s) THEN SubSeq(s, i, Len(s)) ELSE <<>>

PathStem(s) ==
    LET i == LastDot(s)
    IN IF i > 1 /\ i < Len(s) THEN SubSeq(s, 1, i - 1) ELSE s

\* ------------------------------------------------ upload_collection.py helpers
\* re.sub(r"[^A-Za-z0-9._-]", "_", base_name), then the "file" placeholder.
Sanitize(s) ==
    LET t == [i \in DOMAIN s |-> IF s[i] \in SafeChars THEN s[i] ELSE "_"]
    IN IF t = <<>> THEN <<"f","i","l","e">> ELSE t

\* A suffixing that takes the counter it is given without looking at the names used.
FirstFree_Unchecked(stem, ext, counter, used_names) ==
    stem \o <<"-">> \o Decimal(counter) \o ext

\* A suffixing that increments the counter before it forms the first candidate.
RECURSIVE FirstFree_CountFirst(_, _, _, _)
FirstFree_CountFirst(stem, ext, counter, used_names) ==
    LET candidate == stem \o <<"-">> \o Decimal(counter + 1) \o ext
    IN IF candidate \notin used_names THEN candidate
       ELSE FirstFree_CountFirst(stem, ext, counter + 1, used_names)

RECURSIVE FirstFree(_, _, _, _)
FirstFree(stem, ext, counter, used_names) ==
    LET candidate == stem \o <<"-">> \o Decimal(counter) \o ext
    IN IF candidate \notin used_names THEN candidate
       ELSE FirstFree(stem, ext, counter + 1, used_names)

\* normalize_filename's return value; the caller's set gains exactly that name.
normalize_filename(filename, used_names) ==
    LET sanitized == Sanitize(PathName(filename))
    IN IF sanitized \notin used_names THEN sanitized
       ELSE FirstFree(PathStem(sanitized), PathSuffix(sanitized), 1, used_names)

\* The suffixes upload_collection.py accepts (compared against name.lower()).
image_extensions ==
    { <<".","j","p","g">>, <<".","j","p","e","g">>, <<".","p","n","g">>,
      <<".","J","P","G">>, <<".","J","P","E","G">>, <<".","P","N","G">> }

MacJunk == <<"_","_","M","A","C","O","S","X">>

\* open_zip_and_list_images: the members kept, in archive order.
open_zip_and_list_images(members) ==
    SelectSeq(members,
              LAMBDA m : /\ \E e \in image_extensions : EndsWith(Lower(m.name), e)
                         /\ ~StartsWith(m.name, MacJunk))


\* ------------------------------------------------------------ scenario data
\* One collection; its objects live under "c/".
CollectionId == <<"c">>
R2Key(name) == CollectionId \o <<"/">> \o name

\* Face records as extract_embeddings returns them (gender 1 = male, 0 = female).
\* Against the reference embedding <<1, 0>> their similarities are 0.8, 0.8, 0.6, 1.0.
FaceM == [embedding |-> <<4, 3>>, gender |-> 1]
FaceF == [embedding |-> <<4, 3>>, gender |-> 0]
FaceB == [embedding |-> <<3, 4>>, gender |-> 1]
FaceS == [embedding |-> <<1, 0>>, gender |-> 1]

\* Archives: the members of a zip with what the extractor finds in each.
Archives ==
    [ A |-> [corrupt |-> FALSE,
             members |-> << [name |-> <<"a","/","x",".","j","p","g">>, faces |-> <<FaceM>>],
                            [name |-> <<"n",".","P","N","G">>, faces |-> <<>>] >>],
      B |-> [corrupt |-> FALSE,
             members |-> << [name |-> <<"w",".","j","p","g">>, faces |-> <<FaceF, FaceB, FaceS>>] >>],
      D |-> [corrupt |-> FALSE,
             members |-> << [name |-> <<"a","/","x",".","j","p","g">>, faces |-> <<FaceF>>],
                            [name |-> <<"b","/","x",".","j","p","g">>, faces |-> <<FaceM>>] >>],
      E |-> [corrupt |-> FALSE,
             members |-> << [name |-> <<"_","_","M","A","C","O","S","X","/","x",".","j","p","g">>,
                             faces |-> <<>>],
                            [name |-> <<"r",".","t","x","t">>, faces |-> <<>>] >>],
      L |-> [corrupt |-> FALSE,
             members |-> << [name |-> <<".","h",".","j","p","g">>, faces |-> <<FaceM>>],
                            [name |-> <<"p",".","b","m","p">>, faces |-> <<FaceS>>],
                            [name |-> <<"n",".","P","N","G">>, faces |-> <<>>],
                            [name |-> <<"a","/","x",".","j","p","g">>, faces |-> <<FaceF, FaceB>>] >>],
      Z |-> [corrupt |-> TRUE, members |-> <<>>] ]

\* Zip objects in the bucket at the start; key "gone" names no object.
ZipContent == [kA |-> "A", kB |-> "B", kE |-> "E"]
ZipKeys == DOMAIN ZipContent

\* Requests: kind "upload" is POST /upload-collection, "job" is POST /process-ingest-job.
\* zip_key "none" = not given; file "none" = not given, "zip" = named *.zip, "txt" = not.
Req(kind, cid, key, file, body) ==
    [kind |-> kind, collection_id |-> cid, zip_key |-> key, file |-> file, body |-> body]

Requests ==
    { Req("upload", TRUE, "kA", "none", "A"),
      Req("upload", TRUE, "gone", "none", "A"),
      Req("upload", TRUE, "kE", "none", "E"),
      Req("upload", TRUE, "none", "zip", "D"),
      Req("upload", TRUE, "none", "zip", "E"),
      Req("upload", TRUE, "none", "zip", "Z"),
      Req("upload", TRUE, "none", "txt", "A"),
      Req("upload", TRUE, "none", "none", "A"),
      Req("upload", FALSE, "kA", "none", "A"),
      Req("job", TRUE, "kB", "none", "B"),
      Req("job", TRUE, "none", "none", "B") }

\* The requests of the two-process scenario.
RaceRequests ==
    { Req("upload", TRUE, "kA", "none", "A"),
      Req("job", TRUE, "kB", "none", "B") }

Runs == {1, 2}
Other(r) == 3 - r

\* --------------------------------------------------------------- state
VARIABLES
    collection,   \* the Collection record in the metadata store
    r2_index,     \* the object c/embeddings.json: [present, data], data a dict
    r2_images,    \* the image keys stored under c/
    r2_zips,      \* the zip keys stored in the bucket
    ingest_job,   \* the IngestJob record of each run
    run,          \* each ingest run's position and local variables
    threads,      \* collection updates started with threading.Thread, not yet applied
    faults,       \* storage/metadata calls that failed so far
    search_request, \* the SearchRequest record in the metadata store
    search,       \* the search call's position and local variables
    sthreads,     \* search-request updates started with threading.Thread, not yet applied
    gcs_images,   \* app.py: the image blobs stored under {base_path}/images/
    gcs_embeddings, \* app.py: the consolidated {base_path}/embeddings.json, <<>> or <<data>>
    zp,           \* app.py: stream_process_zip's position, futures and local variables
    cf,           \* app.py: the /compare-faces call's parameters, position and local variables
    nz,           \* normalize_filename applied to a list of member paths, one by one
    uz,           \* the image selection of both unpackers applied to a list of member names
    mx            \* both compare_embeddings functions applied to a reference and a face

ingestVars == <<collection, r2_index, r2_images, r2_zips, ingest_job, run, threads>>
searchVars == <<search_request, search, sthreads>>
zipVars == <<gcs_images, gcs_embeddings, zp>>
unitVars == <<nz, uz, mx>>
otherVars == <<searchVars, zipVars, cf, unitVars>>
vars == <<ingestVars, faults, searchVars, zipVars, cf, unitVars>>

\* A Python dict of the index: the entries [name, faces] in insertion order, which
\* json.dumps writes and json.loads restores in that order.
EmptyIndex == <<>>
DictKeys(d) == {d[i].name : i \in DOMAIN d}
DictPut(d, k, v) ==
    IF k \in DictKeys(d)
    THEN [i \in DOMAIN d |-> IF d[i].name = k THEN [name |-> k, faces |-> v] ELSE d[i]]
    ELSE Append(d, [name |-> k, faces |-> v])

IndexKeys == IF r2_index.present THEN DictKeys(r2_index.data) ELSE {}

NoRequest == Req("none", FALSE, "none", "none", "A")

InitRun ==
    [ pc |-> "idle", req |-> NoRequest, result |-> "none",
      existing_images_count |-> 0, existing_preview_images |-> <<>>,
      should_delete_r2_zip |-> FALSE,
      total_images |-> 0, todo |-> <<>>,
      existing_embeddings |-> EmptyIndex, embeddings_data |-> EmptyIndex,
      merged_embeddings |-> EmptyIndex,
      processed_count |-> 0, preview_image_keys |-> <<>>, used_names |-> {},
      \* history, read by the properties only
      own_status |-> "none", index_before |-> {}, index_after |-> {},
      after_other |-> FALSE, write_order |-> 0, blob_before |-> EmptyIndex,
      downloaded |-> FALSE,
      failed_members |-> <<>>, notified |-> <<>>, progress_failed |-> FALSE,
      index_written |-> "no", final_update |-> "none", delete_attempted |-> "no" ]

\* A SearchRequest as created before the search call, for collection cid.
NewSearchRequest(cid) ==
    [collectionId |-> cid, status |-> "pending", totalImages |-> 0, processedImages |-> 0,
     imagesFound |-> <<>>]

NoInput == [content_type |-> "none", id |-> "none", reference |-> <<>>, threshold |-> <<>>]

InitSearch ==
    [ pc |-> "idle", input |-> NoInput, result |-> "none",
      total_images |-> 0, ref |-> <<>>, embeddings_data |-> EmptyIndex, todo |-> <<>>,
      processed_count |-> 0, matches |-> <<>>, started |-> 0,
      \* history, read by the properties only
      fetched |-> FALSE, marked |-> "no", scanned |-> FALSE,
      final_update |-> "none", progress_failed |-> FALSE, reports |-> <<>>,
      extracted |-> FALSE, index_read |-> FALSE ]

InitZip ==
    [ pc |-> "idle", max_workers |-> 0, image_files |-> <<>>, todo |-> <<>>, futures |-> <<>>,
      collected |-> 0, results |-> <<>>, processed_count |-> 0, error_count |-> 0,
      all_embeddings |-> <<>>, result |-> "none",
      \* history, read by the properties only
      read_failed |-> <<>> ]

IngestIdle ==
    /\ r2_zips = ZipKeys
    /\ ingest_job = [r \in Runs |-> [status |-> "queued", totalImages |-> 0, processedImages |-> 0]]
    /\ run = [r \in Runs |-> InitRun]
    /\ threads = {}

SearchIdle ==
    /\ search = InitSearch
    /\ sthreads = {}

ZipIdle ==
    /\ gcs_images = {}
    /\ gcs_embeddings = <<>>
    /\ zp = InitZip

InitCompare ==
    [ pc |-> "idle", similarity_threshold |-> [num |-> 0, den |-> 1], gender_match |-> TRUE,
      return_top_n |-> <<>>, reference |-> <<>>, ref |-> <<>>, embeddings |-> <<>>,
      todo |-> <<>>, all_matches |-> <<>>, sorted |-> <<>>, status |-> 0, matches |-> <<>> ]

CompareIdle == cf = InitCompare

NzIdle == nz = [pc |-> "idle", input |-> <<>>, todo |-> <<>>, used_names |-> {}, out |-> <<>>]
UzIdle == uz = [pc |-> "idle", members |-> <<>>, image_files |-> <<>>, legacy |-> <<>>]
MxIdle == mx = [pc |-> "idle"]

UnitsIdle == NzIdle /\ UzIdle /\ MxIdle

\* A new collection, nothing ingested, no call in progress.
Init ==
    /\ collection = [status |-> "not_started", imagesCount |-> 0, previewImages |-> <<>>]
    /\ r2_index = [present |-> FALSE, data |-> EmptyIndex]
    /\ r2_images = {}
    /\ IngestIdle
    /\ search_request = NewSearchRequest("c")
    /\ SearchIdle
    /\ ZipIdle
    /\ CompareIdle
    /\ UnitsIdle
    /\ faults = 0

\* ------------------------------------------------------ collaborators
\* Outcomes of a call that can fail: "ok" always, the failures while the budget lasts.
Outcomes(failures) == {"ok"} \cup (IF faults < MaxFaults THEN failures ELSE {})
Charge(o) == faults' = faults + (IF o = "ok" THEN 0 ELSE 1)

\* Outcomes of a ConvexService method that convex_client.py does not define: the call
\* returns or raises.
Undefined == {"ok", "raise"}

\* The metadata store's collections:updateStatus; images_count is <<>> or <<n>>.
collections_updateStatus(c, status, images_count) ==
    [c EXCEPT !.status = status,
              !.imagesCount = IF images_count = <<>> THEN @ ELSE images_count[1]]

\* ConvexService.update_collection_status: the mutation, its failure swallowed.
update_collection_status(o, status, images_count) ==
    collection' = IF o = "ok"
                  THEN collections_updateStatus(collection, status, images_count)
                  ELSE collection

\* A merge that forgets what it read: the index written is the run's own entries.
MergeIndex_NewOnly(existing, new) == new

\* A merge in which an entry already in the index wins over the run's.
RECURSIVE MergeIndex_KeepOld(_, _)
MergeIndex_KeepOld(existing, new) ==
    IF new = <<>> THEN existing
    ELSE MergeIndex_KeepOld(IF Head(new).name \in DictKeys(existing) THEN existing
                            ELSE DictPut(existing, Head(new).name, Head(new).faces),
                            Tail(new))

\* A merge that stops after the first entry of the run's result.
MergeIndex_FirstOnly(existing, new) ==
    IF new = <<>> THEN existing ELSE DictPut(existing, Head(new).name, Head(new).faces)

\* {**existing_embeddings, **embeddings_data}
RECURSIVE MergeIndex(_, _)
MergeIndex(existing, new) ==
    IF new = <<>> THEN existing
    ELSE MergeIndex(DictPut(existing, Head(new).name, Head(new).faces), Tail(new))

\* The order-preserving union of the preview lists, cut to the cap.
RECURSIVE Dedupe(_, _)
Dedupe(keys, combined) ==
    IF keys = <<>> THEN combined
    ELSE Dedupe(Tail(keys),
                IF Head(keys) \in Range(combined) THEN combined ELSE Append(combined, Head(keys)))

CombinedPreview(existing, new) ==
    LET combined == Dedupe(existing \o new, <<>>)
    IN SubSeq(combined, 1, IF Len(combined) < PreviewCap THEN Len(combined) ELSE PreviewCap)

\* A handler returns: its result, and the index keys persisted at that moment.
Finish(rec, res) ==
    [rec EXCEPT !.pc = "done", !.result = res, !.index_after = IndexKeys]

\* ------------------------------------------------- upload_collection.py
\* Both handlers: request fields are validated before anything is read or written.
Begin(r, q) ==
    /\ run[r].pc = "idle"
    /\ LET rec == [run[r] EXCEPT !.req = q, !.index_before = IndexKeys,
                                 !.blob_before = r2_index.data,
                                 !.after_other = (run[Other(r)].pc = "done")]
           missing == IF q.kind = "upload"
                      THEN ~q.collection_id \/ (q.zip_key = "none" /\ q.file = "none")
                      ELSE ~q.collection_id \/ q.zip_key = "none"
       IN run' = [run EXCEPT ![r] = IF missing THEN Finish(rec, "http400")
                                    ELSE [rec EXCEPT !.pc = "get_collection"]]
    /\ UNCHANGED <<otherVars, collection, r2_index, r2_images, r2_zips, ingest_job, threads, faults>>

\* A request served by one server process: the handlers make blocking calls, so the
\* second request is taken up when the first has returned.
Start(r, q) ==
    /\ r = 1 \/ run[1].pc = "done"
    /\ Begin(r, q)

\* Requests served by two server processes: the second may arrive while the first runs.
StartRace(r, q) ==
    /\ r = 1 \/ run[1].pc # "idle"
    /\ Begin(r, q)

\* convex_service.get_collection: None (also on a swallowed error) is a 404.
GetCollection(r) ==
    /\ run[r].pc = "get_collection"
    /\ \E o \in Outcomes({"none"}) :
        /\ Charge(o)
        /\ run' = [run EXCEPT ![r] =
                     IF o = "none" THEN Finish(@, "http404")
                     ELSE [@ EXCEPT !.existing_images_count = collection.imagesCount,
                                    !.existing_preview_images = collection.previewImages,
                                    !.pc = IF run[r].req.kind = "upload" THEN "set_processing"
                                           ELSE "job_running"]]
    /\ UNCHANGED <<otherVars, collection, r2_index, r2_images, r2_zips, ingest_job, threads>>

\* update_collection_status(collection_id, "processing", existing_images_count)
SetProcessing(r) ==
    /\ run[r].pc = "set_processing"
    /\ \E o \in Outcomes({"false"}) :
        /\ Charge(o)
        /\ update_collection_status(o, "processing", <<run[r].existing_images_count>>)
        /\ run' = [run EXCEPT ![r].own_status = IF o = "ok" THEN "processing" ELSE @,
                              ![r].pc = IF run[r].req.kind = "upload" THEN "load_zip"
                                        ELSE "load_existing"]
    /\ UNCHANGED <<otherVars, r2_index, r2_images, r2_zips, ingest_job, threads>>

\* The archive is opened and its image members listed; rec is the run after the
\* bytes were obtained.  on_bad is where an unreadable archive leads.
OpenZip(rec, archive, on_bad, on_ok, zero_is_error) ==
    IF Archives[archive].corrupt THEN [rec EXCEPT !.pc = on_bad]
    ELSE LET image_files == open_zip_and_list_images(Archives[archive].members)
         IN IF zero_is_error /\ Len(image_files) = 0 THEN Finish(rec, "http400")
            ELSE [rec EXCEPT !.total_images = Len(image_files), !.todo = image_files,
                             !.pc = on_ok]

\* Lines 212-238: the zip comes from R2 by key or from the multipart file.
LoadZip(r) ==
    /\ run[r].pc = "load_zip"
    /\ LET q == run[r].req
       IN IF q.zip_key # "none"
          THEN \E o \in Outcomes({"none", "raise"}) :
                /\ Charge(o)
                /\ run' = [run EXCEPT ![r] =
                      IF o = "raise" THEN [@ EXCEPT !.pc = "failed"]
                      ELSE IF o = "none" \/ q.zip_key \notin r2_zips THEN Finish(@, "http404")
                      ELSE OpenZip([@ EXCEPT !.should_delete_r2_zip = TRUE,
                                             !.downloaded = TRUE],
                                   ZipContent[q.zip_key], "failed", "load_existing", TRUE)]
          ELSE /\ UNCHANGED faults
               /\ run' = [run EXCEPT ![r] =
                      IF q.file # "zip" THEN Finish(@, "http400")
                      ELSE OpenZip(@, q.body, "failed", "load_existing", TRUE)]
    /\ UNCHANGED <<otherVars, collection, r2_index, r2_images, r2_zips, ingest_job, threads>>

\* load_existing_embeddings (and lines 385-398): {} when the blob is absent, when
\* list_objects or download_file fail, and when the download raises.
load_existing_embeddings(o) ==
    IF o = "ok" /\ r2_index.present THEN r2_index.data ELSE EmptyIndex

LoadExisting(r) ==
    /\ run[r].pc = "load_existing"
    /\ \E o \in Outcomes({"none"}) :
        /\ Charge(o)
        /\ run' = [run EXCEPT ![r].existing_embeddings = load_existing_embeddings(o),
                              ![r].pc = IF run[r].todo = <<>> THEN "write_index" ELSE "process"]
    /\ UNCHANGED <<otherVars, collection, r2_index, r2_images, r2_zips, ingest_job, threads>>

\* One iteration of process_images' loop, with the on_progress of the handler.
\*   read_raise    zip_file.read raises: the member is skipped
\*   upload_false  upload_file swallows a ClientError and returns False
\*   upload_raise  upload_file raises another error: skipped, the name stays used
\*   progress      "raise": update_ingest_progress raises inside on_progress (job only)
ProcessMember(r) ==
    /\ run[r].pc = "process"
    /\ LET rec == run[r]
           member == Head(rec.todo)
           after == [rec EXCEPT !.todo = Tail(@),
                                !.pc = IF Tail(rec.todo) = <<>> THEN "write_index" ELSE "process"]
           normalized_name == normalize_filename(member.name, rec.used_names)
           r2_key == R2Key(normalized_name)
           processed == rec.processed_count + 1
       IN \E o \in Outcomes(IF member.faces = <<>> THEN {"read_raise"}
                            ELSE {"read_raise", "upload_false", "upload_raise"}),
             progress \in IF rec.req.kind = "job" /\ member.faces # <<>> THEN Undefined ELSE {"ok"} :
            /\ Charge(o)
            /\ (o \in {"read_raise", "upload_raise"} => progress = "ok")
            /\ IF o = "read_raise"
               THEN /\ run' = [run EXCEPT ![r] =
                                 [after EXCEPT !.failed_members = Append(@, member.name)]]
                    /\ UNCHANGED <<r2_images, threads, ingest_job>>
               ELSE IF member.faces = <<>>
               THEN /\ run' = [run EXCEPT ![r] = after]
                    /\ UNCHANGED <<r2_images, threads, ingest_job>>
               ELSE IF o = "upload_raise"
               THEN /\ run' = [run EXCEPT ![r] =
                                 [after EXCEPT !.used_names = @ \cup {normalized_name},
                                               !.failed_members = Append(@, member.name)]]
                    /\ UNCHANGED <<r2_images, threads, ingest_job>>
               ELSE /\ r2_images' = IF o = "ok" THEN r2_images \cup {r2_key} ELSE r2_images
                    /\ run' = [run EXCEPT ![r] =
                         [after EXCEPT
                            !.used_names = @ \cup {normalized_name},
                            !.embeddings_data = DictPut(@, normalized_name, member.faces),
                            !.processed_count = processed,
                            !.notified = IF progress = "ok" THEN Append(@, processed) ELSE @,
                            !.preview_image_keys =
                                IF Len(@) < PreviewCap THEN Append(@, r2_key) ELSE @]]
                    /\ threads' = IF progress = "ok"
                                  THEN threads \cup
                                       {[run |-> r, count |-> rec.existing_images_count + processed]}
                                  ELSE threads
                    /\ ingest_job' = IF rec.req.kind = "job" /\ progress = "ok"
                                     THEN [ingest_job EXCEPT ![r].processedImages = processed]
                                     ELSE ingest_job
    /\ UNCHANGED <<otherVars, collection, r2_index, r2_zips>>

\* Lines 267-274: merge, then one upload_file of the whole blob.
\*   false  upload_file swallows a ClientError;  raise  another error propagates
WriteIndex(r) ==
    /\ run[r].pc = "write_index"
    /\ LET merged_embeddings == MergeIndex(run[r].existing_embeddings, run[r].embeddings_data)
       IN \E o \in Outcomes({"false", "raise"}) :
            /\ Charge(o)
            /\ r2_index' = IF o = "ok" THEN [present |-> TRUE, data |-> merged_embeddings]
                           ELSE r2_index
            /\ run' = [run EXCEPT ![r].merged_embeddings = merged_embeddings,
                                  ![r].index_written = o,
                                  ![r].write_order =
                                      IF o = "ok" THEN run[Other(r)].write_order + 1 ELSE 0,
                                  ![r].pc = IF o = "raise"
                                            THEN (IF run[r].req.kind = "upload" THEN "failed"
                                                  ELSE "job_failed")
                                            ELSE "set_preview"]
    /\ UNCHANGED <<otherVars, collection, r2_images, r2_zips, ingest_job, threads>>

\* Lines 278-288: set_collection_preview_images inside try/except.
SetPreview(r) ==
    /\ run[r].pc = "set_preview"
    /\ \E o \in Undefined :
        collection' = IF o = "ok"
                      THEN [collection EXCEPT !.previewImages =
                              CombinedPreview(run[r].existing_preview_images,
                                              run[r].preview_image_keys)]
                      ELSE collection
    /\ run' = [run EXCEPT ![r].pc = "set_complete"]
    /\ UNCHANGED <<otherVars, r2_index, r2_images, r2_zips, ingest_job, threads, faults>>

\* update_collection_status(collection_id, "complete", len(merged_embeddings))
SetComplete(r) ==
    /\ run[r].pc = "set_complete"
    /\ \E o \in Outcomes({"false"}) :
        /\ Charge(o)
        /\ update_collection_status(o, "complete",
                                    <<Len(run[r].merged_embeddings)>>)
        /\ run' = [run EXCEPT ![r] =
              LET rec == [@ EXCEPT !.own_status = IF o = "ok" THEN "complete" ELSE @,
                                   !.final_update = IF o = "ok" THEN "ok" ELSE "failed"]
              IN IF rec.req.kind = "job" THEN [rec EXCEPT !.pc = "job_completed"]
                 ELSE IF rec.req.zip_key # "none" /\ rec.should_delete_r2_zip
                 THEN [rec EXCEPT !.pc = "delete_zip"]
                 ELSE Finish(rec, "success")]
    /\ UNCHANGED <<otherVars, r2_index, r2_images, r2_zips, ingest_job, threads>>

\* delete_file of the source zip after success; a failure is only logged.
DeleteZip(r) ==
    /\ run[r].pc = "delete_zip"
    /\ \E o \in Outcomes({"false"}) :
        /\ Charge(o)
        /\ r2_zips' = IF o = "ok" THEN r2_zips \ {run[r].req.zip_key} ELSE r2_zips
        /\ run' = [run EXCEPT ![r] =
              Finish([@ EXCEPT !.delete_attempted = IF o = "ok" THEN "ok" ELSE "failed"],
                     "success")]
    /\ UNCHANGED <<otherVars, collection, r2_index, r2_images, ingest_job, threads>>

\* except Exception (lines 315-322): update_collection_status(collection_id, "error")
Failed(r) ==
    /\ run[r].pc = "failed"
    /\ \E o \in Outcomes({"false"}) :
        /\ Charge(o)
        /\ update_collection_status(o, "error", <<>>)
        /\ run' = [run EXCEPT ![r].own_status = IF o = "ok" THEN "error" ELSE @,
                              ![r].pc = "failed_cleanup"]
    /\ UNCHANGED <<otherVars, r2_index, r2_images, r2_zips, ingest_job, threads>>

\* Lines 324-332: the zip is deleted when zip_key was given, then HTTP 500.
FailedCleanup(r) ==
    /\ run[r].pc = "failed_cleanup"
    /\ \E o \in Outcomes(IF run[r].req.zip_key # "none" THEN {"false"} ELSE {}) :
        /\ Charge(o)
        /\ r2_zips' = IF o = "ok" THEN r2_zips \ {run[r].req.zip_key} ELSE r2_zips
        /\ run' = [run EXCEPT ![r] =
              Finish([@ EXCEPT !.delete_attempted =
                                  IF run[r].req.zip_key = "none" THEN @
                                  ELSE IF o = "ok" THEN "ok" ELSE "failed"],
                     "http500")]
    /\ UNCHANGED <<otherVars, collection, r2_index, r2_images, ingest_job, threads>>

\* ------------------------------------------------------ process_ingest_job
\* update_ingest_progress(job_id, status="running")
JobRunning(r) ==
    /\ run[r].pc = "job_running"
    /\ \E o \in Undefined :
        /\ ingest_job' = IF o = "ok" THEN [ingest_job EXCEPT ![r].status = "running"]
                         ELSE ingest_job
        /\ run' = [run EXCEPT ![r].pc = IF o = "ok" THEN "job_download" ELSE "job_failed"]
    /\ UNCHANGED <<otherVars, collection, r2_index, r2_images, r2_zips, threads, faults>>

\* Lines 368-377: download by file_key, open, list.
JobDownload(r) ==
    /\ run[r].pc = "job_download"
    /\ \E o \in Outcomes({"none", "raise"}) :
        /\ Charge(o)
        /\ run' = [run EXCEPT ![r] =
              IF o = "raise" THEN [@ EXCEPT !.pc = "job_failed"]
              ELSE IF o = "none" \/ @.req.zip_key \notin r2_zips THEN Finish(@, "http404")
              ELSE OpenZip([@ EXCEPT !.downloaded = TRUE], ZipContent[@.req.zip_key],
                           "job_failed", "job_total", FALSE)]
    /\ UNCHANGED <<otherVars, collection, r2_index, r2_images, r2_zips, ingest_job, threads>>

\* update_ingest_progress(job_id, total_images=total_images)
JobTotal(r) ==
    /\ run[r].pc = "job_total"
    /\ \E o \in Undefined :
        /\ ingest_job' = IF o = "ok"
                         THEN [ingest_job EXCEPT ![r].totalImages = run[r].total_images]
                         ELSE ingest_job
        /\ run' = [run EXCEPT ![r].pc = IF o = "ok" THEN "set_processing" ELSE "job_failed"]
    /\ UNCHANGED <<otherVars, collection, r2_index, r2_images, r2_zips, threads, faults>>

\* mark_ingest_completed(job_id, processed_count)
JobCompleted(r) ==
    /\ run[r].pc = "job_completed"
    /\ \E o \in Undefined :
        /\ ingest_job' = IF o = "ok"
                         THEN [ingest_job EXCEPT ![r].status = "completed",
                                                 ![r].processedImages = run[r].processed_count]
                         ELSE ingest_job
        /\ run' = [run EXCEPT ![r].pc = IF o = "ok" THEN "job_delete_zip" ELSE "job_failed"]
    /\ UNCHANGED <<otherVars, collection, r2_index, r2_images, r2_zips, threads, faults>>

\* Lines 449-456: delete_file(file_key) in try/except, then the result.
JobDeleteZip(r) ==
    /\ run[r].pc = "job_delete_zip"
    /\ \E o \in Outcomes({"false"}) :
        /\ Charge(o)
        /\ r2_zips' = IF o = "ok" THEN r2_zips \ {run[r].req.zip_key} ELSE r2_zips
        /\ run' = [run EXCEPT ![r] =
              Finish([@ EXCEPT !.delete_attempted = IF o = "ok" THEN "ok" ELSE "failed"],
                     "success")]
    /\ UNCHANGED <<otherVars, collection, r2_index, r2_images, ingest_job, threads>>

\* except Exception (lines 459-461): mark_ingest_failed is called outside any try,
\* so when it raises the handler ends there.
JobFailed(r) ==
    /\ run[r].pc = "job_failed"
    /\ \E o \in Undefined :
        /\ ingest_job' = IF o = "ok" THEN [ingest_job EXCEPT ![r].status = "failed"]
                         ELSE ingest_job
        /\ run' = [run EXCEPT ![r] = IF o = "ok" THEN [@ EXCEPT !.pc = "job_error_status"]
                                     ELSE Finish(@, "exception")]
    /\ UNCHANGED <<otherVars, collection, r2_index, r2_images, r2_zips, threads, faults>>

\* Lines 462-466: update_collection_status(collection_id, "error"), then HTTP 500.
JobErrorStatus(r) ==
    /\ run[r].pc = "job_error_status"
    /\ \E o \in Outcomes({"false"}) :
        /\ Charge(o)
        /\ update_collection_status(o, "error", <<>>)
        /\ run' = [run EXCEPT ![r] =
                     Finish([@ EXCEPT !.own_status = IF o = "ok" THEN "error" ELSE @], "http500")]
    /\ UNCHANGED <<otherVars, r2_index, r2_images, r2_zips, ingest_job, threads>>

\* ------------------------------------------------------- progress threads
\* A thread started by on_progress runs update_collection_status(collection_id,
\* "processing", existing_images_count + processed) whenever it is scheduled.
DeliverProgress(t) ==
    /\ t \in threads
    /\ \E o \in Outcomes({"false"}) :
        /\ Charge(o)
        /\ update_collection_status(o, "processing", <<t.count>>)
        /\ run' = [run EXCEPT ![t.run].progress_failed = @ \/ o # "ok"]
    /\ threads' = threads \ {t}
    /\ UNCHANGED <<otherVars, r2_index, r2_images, r2_zips, ingest_job>>

RunStep(r) ==
    \/ GetCollection(r) \/ SetProcessing(r) \/ LoadZip(r) \/ LoadExisting(r)
    \/ ProcessMember(r) \/ WriteIndex(r) \/ SetPreview(r) \/ SetComplete(r)
    \/ DeleteZip(r) \/ Failed(r) \/ FailedCleanup(r)
    \/ JobRunning(r) \/ JobDownload(r) \/ JobTotal(r) \/ JobCompleted(r)
    \/ JobDeleteZip(r) \/ JobFailed(r) \/ JobErrorStatus(r)

Next ==
    \/ \E r \in Runs, q \in Requests : Start(r, q)
    \/ \E r \in Runs : RunStep(r)
    \/ \E t \in threads : DeliverProgress(t)

Spec == Init /\ [][Next]_vars

NextRace ==
    \/ \E r \in Runs, q \in RaceRequests : StartRace(r, q)
    \/ \E r \in Runs : RunStep(r)
    \/ \E t \in threads : DeliverProgress(t)

SpecRace == Init /\ [][NextRace]_vars

\* A collection that archives A and B were ingested into, their zips uploaded
\* again under the same keys: the state ingest runs start from when they re-run.
InitRerun ==
    /\ collection = [status |-> "complete", imagesCount |-> 2,
                     previewImages |-> <<R2Key(<<"x",".","j","p","g">>),
                                         R2Key(<<"w",".","j","p","g">>)>>]
    /\ r2_index = [present |-> TRUE,
                   data |-> << [name |-> <<"x",".","j","p","g">>, faces |-> <<FaceM>>],
                               [name |-> <<"w",".","j","p","g">>,
                                faces |-> <<FaceF, FaceB, FaceS>>] >>]
    /\ r2_images = {R2Key(<<"x",".","j","p","g">>), R2Key(<<"w",".","j","p","g">>)}
    /\ IngestIdle
    /\ search_request = NewSearchRequest("c")
    /\ SearchIdle
    /\ ZipIdle
    /\ CompareIdle
    /\ UnitsIdle
    /\ faults = 0

SpecRerun == InitRerun /\ [][Next]_vars

\* ------------------------------------------- face_recognition_service.py
RECURSIVE Dot(_, _)
Dot(a, b) == IF a = <<>> \/ b = <<>> THEN 0 ELSE Head(a) * Head(b) + Dot(Tail(a), Tail(b))

\* A cosine that divides by the square of the first vector's norm.
Similarity_FirstNormOnly(a, b) == [dot |-> Dot(a, b), n2 |-> Dot(a, a) * Dot(a, a)]

\* np.dot(a, b) / (norm(a) * norm(b)), kept exact: the value is dot / sqrt(n2).
\* n2 = 0 is the 0/0 of a zero-norm vector, numpy's nan.
Similarity(a, b) == [dot |-> Dot(a, b), n2 |-> Dot(a, a) * Dot(b, b)]

\* A test that also accepts a similarity equal to the threshold.
Exceeds_NonStrict(sim, t) ==
    IF sim.n2 = 0 THEN FALSE
    ELSE IF t.num >= 0
    THEN sim.dot >= 0 /\ sim.dot * sim.dot * t.den * t.den >= t.num * t.num * sim.n2
    ELSE sim.dot >= 0 \/ sim.dot * sim.dot * t.den * t.den <= t.num * t.num * sim.n2

\* A test in which the nan of a zero-norm vector passes for a match.
Exceeds_NanMatches(sim, t) ==
    IF sim.n2 = 0 THEN TRUE
    ELSE IF t.num >= 0
    THEN sim.dot > 0 /\ sim.dot * sim.dot * t.den * t.den > t.num * t.num * sim.n2
    ELSE sim.dot >= 0 \/ sim.dot * sim.dot * t.den * t.den < t.num * t.num * sim.n2

\* similarity > t for a threshold t = num/den (den > 0); False for nan.
Exceeds(sim, t) ==
    IF sim.n2 = 0 THEN FALSE
    ELSE IF t.num >= 0
    THEN sim.dot > 0 /\ sim.dot * sim.dot * t.den * t.den > t.num * t.num * sim.n2
    ELSE sim.dot >= 0 \/ sim.dot * sim.dot * t.den * t.den < t.num * t.num * sim.n2

\* s1 < s2 for two similarities that are not nan.
SimLess(s1, s2) ==
    LET k1 == s1.dot * (IF s1.dot < 0 THEN -s1.dot ELSE s1.dot)
        k2 == s2.dot * (IF s2.dot < 0 THEN -s2.dot ELSE s2.dot)
    IN k1 * s2.n2 < k2 * s1.n2

\* The threshold 0.6 that search_photos passes (and the services' default).
DefaultThreshold == [num |-> 6, den |-> 10]

\* FaceRecognitionService.compare_embeddings: (is_match, similarity).
compare_embeddings(ref_embedding, target_embedding, threshold) ==
    LET similarity == Similarity(ref_embedding, target_embedding)
    IN [is_match |-> Exceeds(similarity, threshold), similarity |-> similarity]

\* ------------------------------------------------------ search_photos.py
\* An inner loop without the break, keeping the best-scoring face of the file.
RECURSIVE FirstMatch_Best(_, _, _)
FirstMatch_Best(faces, ref, threshold) ==
    IF faces = <<>> THEN <<>>
    ELSE LET c == compare_embeddings(ref.embedding, Head(faces).embedding, threshold)
             own == IF Head(faces).gender = ref.gender /\ c.is_match
                    THEN <<c.similarity>> ELSE <<>>
             rest == FirstMatch_Best(Tail(faces), ref, threshold)
         IN IF own = <<>> THEN rest
            ELSE IF rest = <<>> THEN own
            ELSE IF SimLess(own[1], rest[1]) THEN rest ELSE own

\* The inner loop of lines 127-141: <<similarity>> of the first face of the
\* reference gender that matches, <<>> when no face does.
RECURSIVE FirstMatch(_, _, _)
FirstMatch(faces, ref, threshold) ==
    IF faces = <<>> THEN <<>>
    ELSE IF Head(faces).gender # ref.gender THEN FirstMatch(Tail(faces), ref, threshold)
    ELSE LET c == compare_embeddings(ref.embedding, Head(faces).embedding, threshold)
         IN IF c.is_match THEN <<c.similarity>>
            ELSE FirstMatch(Tail(faces), ref, threshold)

\* An insertion that puts a match in front of the matches it ties with.
RECURSIVE InsertDesc_TiesFirst(_, _)
InsertDesc_TiesFirst(sorted, x) ==
    IF sorted = <<>> THEN <<x>>
    ELSE IF ~SimLess(x.similarity, Head(sorted).similarity) THEN <<x>> \o sorted
    ELSE <<Head(sorted)>> \o InsertDesc_TiesFirst(Tail(sorted), x)

\* matches.sort(key=lambda x: x[1], reverse=True): descending and stable.
RECURSIVE InsertDesc(_, _)
InsertDesc(sorted, x) ==
    IF sorted = <<>> THEN <<x>>
    ELSE IF SimLess(Head(sorted).similarity, x.similarity) THEN <<x>> \o sorted
    ELSE <<Head(sorted)>> \o InsertDesc(Tail(sorted), x)

RECURSIVE SortMatches(_, _)
SortMatches(matches, sorted) ==
    IF matches = <<>> THEN sorted
    ELSE SortMatches(Tail(matches), InsertDesc(sorted, Head(matches)))

\* Lines 162-166: the storage keys of the sorted matches.
ImagesFound(matches) ==
    LET sorted == SortMatches(matches, <<>>)
    IN [i \in DOMAIN sorted |-> R2Key(sorted[i].filename)]

\* A progress update is sent every 10 files and on the last one (line 146).
ProgressEvery == 10

\* A scan that reports its progress after the last file only.
ShouldReport_LastOnly(processed_count, entries) == processed_count = entries

\* (processed_count % 10 == 0) or (processed_count == len(embeddings_data))
ShouldReport(processed_count, entries) ==
    processed_count % ProgressEvery = 0 \/ processed_count = entries

\* The metadata store's searchRequests:update; each optional field is <<>> or <<v>>.
searchRequests_update(sr, status, images_found, total_images, processed_images) ==
    [sr EXCEPT !.status = status,
               !.imagesFound = IF images_found = <<>> THEN @ ELSE images_found[1],
               !.totalImages = IF total_images = <<>> THEN @ ELSE total_images[1],
               !.processedImages = IF processed_images = <<>> THEN @ ELSE processed_images[1]]

\* ConvexService.update_search_request: the mutation, its failure swallowed.
update_search_request(o, status, images_found, total_images, processed_images) ==
    search_request' =
        IF o = "ok"
        THEN searchRequests_update(search_request, status, images_found, total_images,
                                   processed_images)
        ELSE search_request

\* threading.Thread(target=update_search_request, args=(id, "processing"), kwargs=...)
SearchThread(n, total_images, processed_images) ==
    [n |-> n, total_images |-> total_images, processed_images |-> processed_images]

\* Reference photos: the faces the extractor finds in them.
RefMale == [embedding |-> <<1, 0>>, gender |-> 1]
RefFemale == [embedding |-> <<1, 0>>, gender |-> 0]

\* The form of a request; threshold is a field the caller adds (<<>> when it does
\* not), which the handler's signature (lines 24-27) does not declare.
SearchInput(content_type, id, reference, threshold) ==
    [content_type |-> content_type, id |-> id, reference |-> reference,
     threshold |-> threshold]

SearchInputs ==
    { SearchInput("image/jpeg", "s1", <<RefMale>>, <<>>),
      SearchInput("image/jpeg", "s1", <<RefMale>>, <<[num |-> 8, den |-> 10]>>),
      SearchInput("image/jpeg", "s1", <<RefFemale, RefMale>>, <<>>),
      SearchInput("image/jpeg", "s1", <<[embedding |-> <<0, 0>>, gender |-> 1]>>, <<>>),
      SearchInput("image/jpeg", "s1", <<>>, <<>>),
      SearchInput("text/plain", "s1", <<RefMale>>, <<>>),
      SearchInput("image/jpeg", "unknown", <<RefMale>>, <<>>) }

SearchFinish(rec, res) == [rec EXCEPT !.pc = "done", !.result = res]

\* Lines 38-40: the upload must be an image.
StartSearch(inp) ==
    /\ search.pc = "idle"
    /\ search' = IF inp.content_type # "image/jpeg"
                 THEN SearchFinish([search EXCEPT !.input = inp], "http400_not_image")
                 ELSE [search EXCEPT !.input = inp, !.pc = "get_request"]
    /\ UNCHANGED <<ingestVars, cf, unitVars, zipVars, faults, search_request, sthreads>>

\* Lines 48-67: fetch the SearchRequest, then start the first "processing" thread.
GetSearchRequest ==
    /\ search.pc = "get_request"
    /\ \E o \in Outcomes({"none"}) :
        /\ Charge(o)
        /\ IF o = "none" \/ search.input.id # "s1"
           THEN /\ search' = SearchFinish(search, "http404_request")
                /\ UNCHANGED sthreads
           ELSE /\ search' = [search EXCEPT !.pc = "get_collection", !.fetched = TRUE,
                                            !.started = @ + 1]
                /\ sthreads' = sthreads \cup {SearchThread(search.started, <<>>, <<>>)}
    /\ UNCHANGED <<ingestVars, cf, unitVars, zipVars, search_request>>

\* A collection check that lets a collection of any status through.
SearchGetCollection_AnyStatus ==
    /\ search.pc = "get_collection"
    /\ \E o \in Outcomes({"none"}) :
        /\ Charge(o)
        /\ search' =
             IF o = "none" \/ search_request.collectionId # "c"
             THEN SearchFinish(search, "http404_collection")
             ELSE [search EXCEPT !.total_images = collection.imagesCount, !.pc = "extract"]
    /\ UNCHANGED <<ingestVars, cf, unitVars, zipVars, search_request, sthreads>>

\* Lines 69-82: the collection must exist and be complete.
SearchGetCollection ==
    /\ search.pc = "get_collection"
    /\ \E o \in Outcomes({"none"}) :
        /\ Charge(o)
        /\ search' =
             IF o = "none" \/ search_request.collectionId # "c"
             THEN SearchFinish(search, "http404_collection")
             ELSE IF collection.status # "complete"
             THEN SearchFinish(search, "http400_not_ready")
             ELSE [search EXCEPT !.total_images = collection.imagesCount, !.pc = "extract"]
    /\ UNCHANGED <<ingestVars, cf, unitVars, zipVars, search_request, sthreads>>

\* Lines 84-96: the first face of the reference photo.
ExtractReference ==
    /\ search.pc = "extract"
    /\ search' = IF search.input.reference = <<>>
                 THEN SearchFinish([search EXCEPT !.extracted = TRUE], "http400_no_face")
                 ELSE [search EXCEPT !.ref = <<search.input.reference[1]>>,
                                     !.extracted = TRUE,
                                     !.pc = "load_index"]
    /\ UNCHANGED <<ingestVars, cf, unitVars, zipVars, faults, search_request, sthreads>>

\* Lines 100-120: download embeddings.json, then start the thread with the totals.
\*   none   download_file returns None (no blob, or a swallowed ClientError)
\*   raise  another error propagates to except Exception
LoadIndex ==
    /\ search.pc = "load_index"
    /\ \E o \in Outcomes({"none", "raise"}) :
        /\ Charge(o)
        /\ IF o = "raise"
           THEN /\ search' = [search EXCEPT !.pc = "search_failed", !.index_read = TRUE]
                /\ UNCHANGED sthreads
           ELSE IF o = "none" \/ ~r2_index.present
           THEN /\ search' = SearchFinish([search EXCEPT !.index_read = TRUE], "http404_index")
                /\ UNCHANGED sthreads
           ELSE /\ search' = [search EXCEPT
                                 !.embeddings_data = r2_index.data,
                                 !.index_read = TRUE,
                                 !.todo = r2_index.data,
                                 !.started = @ + 1,
                                 !.pc = IF r2_index.data = <<>> THEN "finish" ELSE "scan"]
                /\ sthreads' = sthreads \cup
                       {SearchThread(search.started, <<search.total_images>>, <<0>>)}
    /\ UNCHANGED <<ingestVars, cf, unitVars, zipVars, search_request>>

\* One iteration of the loop of lines 126-152.
ScanEntry ==
    /\ search.pc = "scan"
    /\ LET entry == Head(search.todo)
           found == FirstMatch(entry.faces, search.ref[1], DefaultThreshold)
           processed_count == search.processed_count + 1
           report == ShouldReport(processed_count, Len(search.embeddings_data))
       IN /\ search' = [search EXCEPT
                          !.matches = IF found = <<>> THEN @
                                      ELSE Append(@, [filename |-> entry.name,
                                                      similarity |-> found[1]]),
                          !.processed_count = processed_count,
                          !.todo = Tail(@),
                          !.scanned = TRUE,
                          !.started = IF report THEN @ + 1 ELSE @,
                          !.reports =
                              IF report
                              THEN @ \o SearchThread(search.started, <<>>,
                                                     <<processed_count>>).processed_images
                              ELSE @,
                          !.pc = IF Tail(search.todo) = <<>> THEN "finish" ELSE "scan"]
          /\ sthreads' = IF report
                         THEN sthreads \cup {SearchThread(search.started, <<>>, <<processed_count>>)}
                         ELSE sthreads
    /\ UNCHANGED <<ingestVars, cf, unitVars, zipVars, faults, search_request>>

\* Lines 157-185: sort, build the keys, the final update, the response.
FinishSearch ==
    /\ search.pc = "finish"
    /\ \E o \in Outcomes({"false"}) :
        /\ Charge(o)
        /\ update_search_request(o, "complete", <<ImagesFound(search.matches)>>,
                                 <<search.total_images>>, <<search.total_images>>)
        /\ search' = SearchFinish([search EXCEPT !.final_update =
                                                   IF o = "ok" THEN "ok" ELSE "failed"],
                                  "success")
    /\ UNCHANGED <<ingestVars, cf, unitVars, zipVars, sthreads>>

\* An except branch that marks the collection "error" as the ingest handlers do.
SearchFailed_MarksCollection ==
    /\ search.pc = "search_failed"
    /\ \E o \in Outcomes({"false"}) :
        /\ Charge(o)
        /\ update_search_request(o, "error", <<>>, <<>>, <<>>)
        /\ update_collection_status(o, "error", <<>>)
        /\ search' = SearchFinish([search EXCEPT !.marked = IF o = "ok" THEN "ok" ELSE "failed"],
                                  "http500")
    /\ UNCHANGED <<r2_index, r2_images, r2_zips, ingest_job, run, threads>>
    /\ UNCHANGED <<cf, unitVars, zipVars, sthreads>>

\* except Exception (lines 189-198): mark the request "error", then HTTP 500.
SearchFailed ==
    /\ search.pc = "search_failed"
    /\ \E o \in Outcomes({"false"}) :
        /\ Charge(o)
        /\ update_search_request(o, "error", <<>>, <<>>, <<>>)
        /\ search' = SearchFinish([search EXCEPT !.marked = IF o = "ok" THEN "ok" ELSE "failed"],
                                  "http500")
    /\ UNCHANGED <<ingestVars, cf, unitVars, zipVars, sthreads>>

\* A started thread runs update_search_request(id, "processing", ...) when scheduled.
DeliverSearchUpdate(t) ==
    /\ t \in sthreads
    /\ \E o \in Outcomes({"false"}) :
        /\ Charge(o)
        /\ update_search_request(o, "processing", <<>>, t.total_images, t.processed_images)
        /\ search' = [search EXCEPT !.progress_failed = @ \/ o # "ok"]
    /\ sthreads' = sthreads \ {t}
    /\ UNCHANGED <<ingestVars, cf, unitVars, zipVars>>

\* Collections as ingest leaves them, with the index blob of each; one holds
\* eleven files, so that a scan passes its tenth file before its last, and one
\* holds faces whose embedding is the zero vector.
IndexAB ==
    << [name |-> <<"x",".","j","p","g">>, faces |-> <<FaceM>>],
       [name |-> <<"w",".","j","p","g">>, faces |-> <<FaceF, FaceB, FaceS>>] >>

\* A larger index: two files tie at 0.8 for a male reference (y.jpg through its
\* first face, its second scoring 1.0), w.jpg scores 1.0, z.jpg sits at 0.6.
IndexTies ==
    << [name |-> <<"x",".","j","p","g">>, faces |-> <<FaceM>>],
       [name |-> <<"w",".","j","p","g">>, faces |-> <<FaceF, FaceB, FaceS>>],
       [name |-> <<"y",".","j","p","g">>, faces |-> <<FaceM, FaceS>>],
       [name |-> <<"z",".","j","p","g">>, faces |-> <<FaceB>>] >>

SearchWorlds ==
    { [status |-> "complete", imagesCount |-> 2, present |-> TRUE, data |-> IndexAB],
      [status |-> "complete", imagesCount |-> 4, present |-> TRUE, data |-> IndexTies],
      [status |-> "complete", imagesCount |-> 11, present |-> TRUE,
       data |-> [i \in 1..11 |-> [name |-> <<"f">> \o Decimal(i) \o <<".","j","p","g">>,
                                  faces |-> <<FaceB>>]]],
      [status |-> "complete", imagesCount |-> 2, present |-> TRUE,
       data |-> << [name |-> <<"v",".","j","p","g">>,
                    faces |-> <<[embedding |-> <<0, 0>>, gender |-> 1]>>],
                   [name |-> <<"u",".","j","p","g">>,
                    faces |-> <<[embedding |-> <<0, 0>>, gender |-> 1], FaceS>>] >>],
      [status |-> "complete", imagesCount |-> 1, present |-> FALSE, data |-> EmptyIndex],
      [status |-> "processing", imagesCount |-> 1, present |-> TRUE,
       data |-> SubSeq(IndexAB, 1, 1)],
      [status |-> "not_started", imagesCount |-> 0, present |-> FALSE, data |-> EmptyIndex] }

\* A search request for the collection (or for one that does not exist), the
\* collection in one of the states above.
InitSearchSpec ==
    /\ \E w \in SearchWorlds :
        /\ collection = [status |-> w.status, imagesCount |-> w.imagesCount,
                         previewImages |-> [i \in DOMAIN w.data |-> R2Key(w.data[i].name)]]
        /\ r2_index = [present |-> w.present, data |-> w.data]
        /\ r2_images = {R2Key(w.data[i].name) : i \in DOMAIN w.data}
    /\ IngestIdle
    /\ \E cid \in {"c", "x"} : search_request = NewSearchRequest(cid)
    /\ SearchIdle
    /\ ZipIdle
    /\ CompareIdle
    /\ UnitsIdle
    /\ faults = 0

NextSearch ==
    \/ \E inp \in SearchInputs : StartSearch(inp)
    \/ GetSearchRequest \/ SearchGetCollection \/ ExtractReference \/ LoadIndex
    \/ ScanEntry \/ FinishSearch \/ SearchFailed
    \/ \E t \in sthreads : DeliverSearchUpdate(t)

SpecSearch == InitSearchSpec /\ [][NextSearch]_vars

\* A search call served by one process while another serves an ingest request
\* for the same collection.
NextFrame ==
    \/ \E q \in RaceRequests : Start(1, q)
    \/ RunStep(1)
    \/ \E t \in threads : DeliverProgress(t)
    \/ NextSearch

SpecFrame == Init /\ [][NextFrame]_vars

\* ----------------------------------------------------- app.py (legacy)
\* The name filter of stream_process_zip (lines 147-150).
legacy_extensions ==
    { <<".","j","p","g">>, <<".","j","p","e","g">>, <<".","p","n","g">>, <<".","b","m","p">> }

LegacyImageFiles(members) ==
    SelectSeq(members,
              LAMBDA m : /\ \E e \in legacy_extensions : EndsWith(Lower(m.name), e)
                         /\ ~StartsWith(m.name, MacJunk)
                         /\ ~StartsWith(m.name, <<".">>))

\* f"{base_path}/images/{image_name}", relative to base_path.
GcsImagePath(image_name) == <<"i","m","a","g","e","s","/">> \o image_name

\* Lines 104-113: the face records of a result.
FacesData(face_features) ==
    [idx \in DOMAIN face_features |->
        [face_index |-> idx - 1,
         embedding |-> face_features[idx].embedding,
         gender |-> IF face_features[idx].gender = 1 THEN "male" ELSE "female"]]

\* process_image_from_zip: what it returns (<<>> is None) for each outcome.
\*   undecodable   cv2.imdecode returns None
\*   raise         upload_to_gcs raises, caught by the except of line 126
ImageResult(image_name, face_features, o) ==
    IF o = "undecodable" THEN <<>>
    ELSE IF o = "raise"
    THEN << [image_name |-> image_name, image_path |-> <<>>, faces_count |-> 0,
             faces |-> <<>>, error |-> TRUE] >>
    ELSE << [image_name |-> image_name, image_path |-> GcsImagePath(image_name),
             faces_count |-> Len(face_features), faces |-> FacesData(face_features),
             error |-> FALSE] >>

\* Archives posted to /process-zip and the pool sizes asked for (default 4).
ZipBodies == {"A", "D", "E", "L", "Z"}
ZipMaxWorkers == {1, 4}

\* The tasks of the pool that a worker thread is running.
Running == {i \in DOMAIN zp.futures : zp.futures[i].state = "running"}

\* Lines 144-158: open the archive, list the images, create the pool.
ZipStart(body, max_workers) ==
    /\ zp.pc = "idle"
    /\ zp' = IF Archives[body].corrupt
             THEN [zp EXCEPT !.pc = "done", !.result = "raise"]
             ELSE LET image_files == LegacyImageFiles(Archives[body].members)
                  IN [zp EXCEPT !.max_workers = max_workers,
                                !.image_files = image_files,
                                !.todo = image_files,
                                !.pc = IF image_files = <<>> THEN "collect" ELSE "submit"]
    /\ UNCHANGED <<ingestVars, cf, unitVars, searchVars, faults, gcs_images, gcs_embeddings>>

\* Lines 161-174: read the next member and submit its task.  zf.read sits in no
\* try of its own: when it raises, the executor's with-block is left (the tasks
\* already submitted still run) and the except of line 213 re-raises.
ZipSubmit ==
    /\ zp.pc = "submit"
    /\ LET image_file == Head(zp.todo)
           future == [image_name |-> PathName(image_file.name), faces |-> image_file.faces,
                      state |-> "queued", result |-> <<>>, started |-> 0]
       IN \E o \in Outcomes({"raise"}) :
            /\ Charge(o)
            /\ zp' = IF o = "raise"
                     THEN [zp EXCEPT !.pc = "shutdown",
                                     !.read_failed = Append(@, image_file.name)]
                     ELSE [zp EXCEPT !.futures = Append(@, future),
                                     !.todo = Tail(@),
                                     !.pc = IF Tail(zp.todo) = <<>> THEN "collect" ELSE "submit"]
    /\ UNCHANGED <<ingestVars, cf, unitVars, searchVars, gcs_images, gcs_embeddings>>

\* ThreadPoolExecutor.__exit__ has waited for the submitted tasks; the error of
\* zf.read leaves stream_process_zip (lines 213-215).
ZipAbort ==
    /\ zp.pc = "shutdown"
    /\ \A i \in DOMAIN zp.futures : zp.futures[i].state = "done"
    /\ zp' = [zp EXCEPT !.pc = "done", !.result = "raise"]
    /\ UNCHANGED <<ingestVars, cf, unitVars, searchVars, faults, gcs_images, gcs_embeddings>>

\* A free worker of the pool takes the oldest queued task.
WorkerStart(i) ==
    /\ i \in DOMAIN zp.futures
    /\ zp.futures[i].state = "queued"
    /\ \A j \in 1..(i - 1) : zp.futures[j].state # "queued"
    /\ Cardinality(Running) < zp.max_workers
    /\ zp' = [zp EXCEPT !.futures[i].state = "running", !.futures[i].started = @ + 1]
    /\ UNCHANGED <<ingestVars, cf, unitVars, searchVars, faults, gcs_images, gcs_embeddings>>

\* process_image_from_zip (lines 71-132) run by a worker.
WorkerFinish(i) ==
    /\ i \in DOMAIN zp.futures
    /\ zp.futures[i].state = "running"
    /\ LET f == zp.futures[i]
       IN \E u \in {"decoded", "undecodable"}, o \in Outcomes({"raise"}) :
            /\ Charge(o)
            /\ u = "undecodable" => f.faces = <<>> /\ o = "ok"
            /\ LET res == ImageResult(f.image_name, f.faces,
                                      IF u = "undecodable" THEN u ELSE o)
               IN /\ zp' = [zp EXCEPT !.futures[i].state = "done",
                                      !.futures[i].result = res]
                  /\ gcs_images' = IF u = "decoded" /\ o = "ok"
                                   THEN gcs_images \cup {GcsImagePath(f.image_name)}
                                   ELSE gcs_images
    /\ UNCHANGED <<ingestVars, cf, unitVars, searchVars, gcs_embeddings>>

\* Lines 177-186: take the next future's result, in submission order.
ZipCollect ==
    /\ zp.pc = "collect"
    /\ zp.collected < Len(zp.futures)
    /\ LET f == zp.futures[zp.collected + 1]
       IN /\ f.state = "done"
          /\ zp' = IF f.result = <<>>
                   THEN [zp EXCEPT !.collected = @ + 1]
                   ELSE LET result == f.result[1]
                        IN [zp EXCEPT
                              !.collected = @ + 1,
                              !.results = Append(@, result),
                              !.processed_count = IF result.error THEN @ ELSE @ + 1,
                              !.error_count = IF result.error THEN @ + 1 ELSE @,
                              !.all_embeddings =
                                  IF ~result.error /\ result.faces_count > 0
                                  THEN Append(@, result) ELSE @]
    /\ UNCHANGED <<ingestVars, cf, unitVars, searchVars, faults, gcs_images, gcs_embeddings>>

\* Lines 190-223: upload the consolidated embeddings file, if any, and return.
ZipConsolidate ==
    /\ zp.pc = "collect"
    /\ zp.collected = Len(zp.futures)
    /\ \E o \in Outcomes(IF zp.all_embeddings = <<>> THEN {} ELSE {"raise"}) :
        /\ Charge(o)
        /\ gcs_embeddings' = IF zp.all_embeddings # <<>> /\ o = "ok"
                             THEN <<zp.all_embeddings>> ELSE gcs_embeddings
        /\ zp' = [zp EXCEPT !.pc = "done", !.result = IF o = "ok" THEN "ok" ELSE "raise"]
    /\ UNCHANGED <<ingestVars, cf, unitVars, searchVars, gcs_images>>

NextZip ==
    \/ \E body \in ZipBodies, max_workers \in ZipMaxWorkers : ZipStart(body, max_workers)
    \/ ZipSubmit
    \/ \E i \in DOMAIN zp.futures : WorkerStart(i)
    \/ \E i \in DOMAIN zp.futures : WorkerFinish(i)
    \/ ZipCollect
    \/ ZipConsolidate
    \/ ZipAbort

SpecZip == Init /\ [][NextZip]_vars

\* ------------------------------------------- app.py: /compare-faces (legacy)
\* compare_embeddings of app.py (lines 382-417): every face of one image above the
\* threshold, of the reference's gender when gender_match is set.
legacy_compare_embeddings(ref_embedding, ref_gender, embedding_data, similarity_threshold, gender_match) ==
    LET hit(face) ==
            LET face_gender == IF face.gender = "male" THEN 1 ELSE 0
            IN /\ Exceeds(Similarity(ref_embedding, face.embedding), similarity_threshold)
               /\ (~gender_match \/ (gender_match /\ ref_gender = face_gender))
        faces == SelectSeq(embedding_data.faces, hit)
    IN [i \in DOMAIN faces |->
          [face_index |-> faces[i].face_index,
           similarity |-> Similarity(ref_embedding, faces[i].embedding),
           gender |-> faces[i].gender]]

\* all_matches[:return_top_n], Python's slice for any integer.
SliceTo(list, n) ==
    LET stop == IF n >= 0 THEN n ELSE Len(list) + n
    IN IF stop <= 0 THEN <<>>
       ELSE IF stop >= Len(list) THEN list
       ELSE SubSeq(list, 1, stop)

\* Lines 547-549: the cap is applied only when return_top_n is truthy.
LimitResults(all_matches, return_top_n) ==
    IF return_top_n # <<>> /\ return_top_n[1] # 0
    THEN SliceTo(all_matches, return_top_n[1])
    ELSE all_matches

\* The consolidated file stream_process_zip writes for a list of images with faces.
Consolidated(entries) ==
    [i \in DOMAIN entries |-> ImageResult(entries[i].name, entries[i].faces, "ok")[1]]

\* Requests to /compare-faces: base_path given or not, the reference photo's faces,
\* and the optional parameters (<<>> = not sent).
CompareRequests ==
    [ base_path : BOOLEAN,
      reference : {<<>>, <<RefMale>>, <<RefFemale, RefMale>>},
      similarity_threshold : {<<>>, <<[num |-> 8, den |-> 10]>>},
      gender_match : {<<>>, <<FALSE>>},
      return_top_n : {<<>>, <<0>>, <<1>>, <<2>>} ]

CompareFinish(rec, status, matches) ==
    [rec EXCEPT !.pc = "done", !.status = status, !.matches = matches]

\* Lines 441-487: read the parameters, defaults 0.6 and true; base_path is required.
CompareStart(q) ==
    /\ cf.pc = "idle"
    /\ LET rec == [cf EXCEPT
                     !.reference = q.reference,
                     !.similarity_threshold =
                         IF q.similarity_threshold = <<>> THEN DefaultThreshold
                         ELSE q.similarity_threshold[1],
                     !.gender_match = IF q.gender_match = <<>> THEN TRUE ELSE q.gender_match[1],
                     !.return_top_n = q.return_top_n]
       IN cf' = IF ~q.base_path THEN CompareFinish(rec, 400, <<>>)
                ELSE [rec EXCEPT !.pc = "reference"]
    /\ UNCHANGED <<ingestVars, searchVars, zipVars, unitVars, faults>>

\* Lines 494-499 and get_reference_embedding: the first face of the reference image.
CompareReference ==
    /\ cf.pc = "reference"
    /\ \E o \in Outcomes({"raise"}) :
        /\ Charge(o)
        /\ cf' = IF o = "raise" THEN CompareFinish(cf, 500, <<>>)
                 ELSE IF cf.reference = <<>> THEN CompareFinish(cf, 400, <<>>)
                 ELSE [cf EXCEPT !.ref = <<cf.reference[1]>>, !.pc = "load"]
    /\ UNCHANGED <<ingestVars, searchVars, zipVars, unitVars>>

\* Lines 502-516 and load_consolidated_embeddings: no file is an empty 200 answer.
CompareLoad ==
    /\ cf.pc = "load"
    /\ \E o \in Outcomes({"raise"}) :
        /\ Charge(o)
        /\ cf' = IF o = "raise" THEN CompareFinish(cf, 500, <<>>)
                 ELSE IF gcs_embeddings = <<>> THEN CompareFinish(cf, 200, <<>>)
                 ELSE [cf EXCEPT !.embeddings = gcs_embeddings[1],
                                 !.todo = gcs_embeddings[1],
                                 !.pc = IF gcs_embeddings[1] = <<>> THEN "respond"
                                        ELSE "compare"]
    /\ UNCHANGED <<ingestVars, searchVars, zipVars, unitVars>>

\* One iteration of the loop of lines 518-542: every match of the image is added.
CompareImage ==
    /\ cf.pc = "compare"
    /\ LET image_data == Head(cf.todo)
           matches == legacy_compare_embeddings(cf.ref[1].embedding, cf.ref[1].gender,
                                                image_data, cf.similarity_threshold,
                                                cf.gender_match)
       IN cf' = [cf EXCEPT
                   !.all_matches = @ \o [i \in DOMAIN matches |->
                                           [image_name |-> image_data.image_name,
                                            image_path |-> image_data.image_path,
                                            face_index |-> matches[i].face_index,
                                            similarity |-> matches[i].similarity,
                                            gender |-> matches[i].gender]],
                   !.todo = Tail(@),
                   !.pc = IF Tail(cf.todo) = <<>> THEN "respond" ELSE "compare"]
    /\ UNCHANGED <<ingestVars, searchVars, zipVars, unitVars, faults>>

\* Lines 544-565: sort by similarity, highest first, cut to the cap, answer 200.
CompareRespond ==
    /\ cf.pc = "respond"
    /\ LET sorted == SortMatches(cf.all_matches, <<>>)
       IN cf' = CompareFinish([cf EXCEPT !.sorted = sorted], 200,
                              LimitResults(sorted, cf.return_top_n))
    /\ UNCHANGED <<ingestVars, searchVars, zipVars, unitVars, faults>>

\* /compare-faces is called on a base_path that /process-zip filled, or on an empty one.
InitCompareSpec ==
    /\ collection = [status |-> "not_started", imagesCount |-> 0, previewImages |-> <<>>]
    /\ r2_index = [present |-> FALSE, data |-> EmptyIndex]
    /\ r2_images = {}
    /\ IngestIdle
    /\ search_request = NewSearchRequest("c")
    /\ SearchIdle
    /\ \E entries \in {<<>>, IndexTies} :
        /\ gcs_images = {GcsImagePath(entries[i].name) : i \in DOMAIN entries}
        /\ gcs_embeddings = IF entries = <<>> THEN <<>> ELSE <<Consolidated(entries)>>
    /\ zp = InitZip
    /\ CompareIdle
    /\ UnitsIdle
    /\ faults = 0

NextCompare ==
    \/ \E q \in CompareRequests : CompareStart(q)
    \/ CompareReference
    \/ CompareLoad
    \/ CompareImage
    \/ CompareRespond

SpecCompare == InitCompareSpec /\ [][NextCompare]_vars

\* --------------------------------------------- the match test on its own
\* Embeddings of integer norm, the zero vector among them, and thresholds that
\* some of their similarities hit exactly.
MatchEmbeddings == {<<1, 0>>, <<3, 4>>, <<4, 3>>, <<0, 1>>, <<-1, 0>>, <<0, 0>>}
MatchThresholds ==
    { [num |-> 6, den |-> 10], [num |-> 8, den |-> 10], [num |-> 0, den |-> 1],
      [num |-> 1, den |-> 1] }

\* Any reference, any face, any threshold, gender matching asked for or not.
InitMatchSpec ==
    /\ collection = [status |-> "not_started", imagesCount |-> 0, previewImages |-> <<>>]
    /\ r2_index = [present |-> FALSE, data |-> EmptyIndex]
    /\ r2_images = {}
    /\ IngestIdle
    /\ search_request = NewSearchRequest("c")
    /\ SearchIdle
    /\ ZipIdle
    /\ CompareIdle
    /\ NzIdle
    /\ UzIdle
    /\ \E ref_embedding \in {<<1, 0>>, <<3, 4>>, <<0, 0>>}, ref_gender \in {0, 1},
          embedding \in MatchEmbeddings, gender \in {0, 1},
          threshold \in MatchThresholds, gender_match \in BOOLEAN :
          mx = [pc |-> "ready", ref_embedding |-> ref_embedding, ref_gender |-> ref_gender,
                face |-> [embedding |-> embedding, gender |-> gender],
                threshold |-> threshold, gender_match |-> gender_match,
                is_match |-> FALSE, matches |-> <<>>,
                result |-> compare_embeddings(<<>>, <<>>, threshold),
                swapped |-> compare_embeddings(<<>>, <<>>, threshold)]
    /\ faults = 0

\* FaceRecognitionService.compare_embeddings on the face (and with the two
\* vectors in each other's place), and app.py's compare_embeddings on an image
\* that holds just this face.
ApplyMatch ==
    /\ mx.pc = "ready"
    /\ mx' = [mx EXCEPT
                !.pc = "done",
                !.is_match = compare_embeddings(mx.ref_embedding, mx.face.embedding,
                                                mx.threshold).is_match,
                !.result = compare_embeddings(mx.ref_embedding, mx.face.embedding,
                                              mx.threshold),
                !.swapped = compare_embeddings(mx.face.embedding, mx.ref_embedding,
                                               mx.threshold),
                !.matches = legacy_compare_embeddings(
                                mx.ref_embedding, mx.ref_gender,
                                [faces |-> FacesData(<<mx.face>>)],
                                mx.threshold, mx.gender_match)]
    /\ UNCHANGED <<ingestVars, searchVars, zipVars, cf, nz, uz, faults>>

NextMatch == ApplyMatch

SpecMatch == InitMatchSpec /\ [][NextMatch]_vars

\* ------------------------------------------------ the normalizer on its own
\* Member paths: two with one basename, names that a suffix or a replaced
\* character collides with, the empty path, a name with another replaced character.
NormPaths ==
    { <<"a","/","x",".","j","p","g">>, <<"b","/","x",".","j","p","g">>,
      <<"x","-","1",".","j","p","g">>, <<"x"," ","1",".","j","p","g">>,
      <<"x","_","1",".","j","p","g">>, <<>>, <<"#",".","j","p","g">> }

RECURSIVE SeqsUpTo(_, _)
SeqsUpTo(S, n) ==
    IF n = 0 THEN {<<>>}
    ELSE LET shorter == SeqsUpTo(S, n - 1)
         IN shorter \cup {Append(q, x) : q \in shorter, x \in S}

\* process_images starts with used_names = set() (line 108) and a list of members.
InitNormalizeSpec ==
    /\ collection = [status |-> "not_started", imagesCount |-> 0, previewImages |-> <<>>]
    /\ r2_index = [present |-> FALSE, data |-> EmptyIndex]
    /\ r2_images = {}
    /\ IngestIdle
    /\ search_request = NewSearchRequest("c")
    /\ SearchIdle
    /\ ZipIdle
    /\ CompareIdle
    /\ \E paths \in SeqsUpTo(NormPaths, MaxPaths) \ {<<>>} :
          nz = [pc |-> "run", input |-> paths, todo |-> paths, used_names |-> {},
                out |-> <<>>]
    /\ UzIdle
    /\ MxIdle
    /\ faults = 0

\* normalize_filename(member, used_names) on the next path; the set gains the name.
NormalizeNext ==
    /\ nz.pc = "run"
    /\ LET name == normalize_filename(Head(nz.todo), nz.used_names)
       IN nz' = [nz EXCEPT !.out = Append(@, name),
                           !.used_names = @ \cup {name},
                           !.todo = Tail(@),
                           !.pc = IF Tail(nz.todo) = <<>> THEN "done" ELSE "run"]
    /\ UNCHANGED <<ingestVars, searchVars, zipVars, cf, uz, mx, faults>>

NextNormalize == NormalizeNext

SpecNormalize == InitNormalizeSpec /\ [][NextNormalize]_vars

\* ------------------------------------------------- the unpackers on their own
\* Member names: images, one in upper case, a .bmp, a hidden file, platform junk
\* and a file that is no image.
MemberNames ==
    { <<"x",".","j","p","g">>, <<"y",".","P","N","G">>, <<"p",".","b","m","p">>,
      <<".","h",".","j","p","g">>, <<"_","_","M","A","C","O","S","X","/","x",".","j","p","g">>,
      <<"r",".","t","x","t">> }

AsMembers(names) == [i \in DOMAIN names |-> [name |-> names[i], faces |-> <<>>]]

\* zf.namelist() of an archive, in archive order.
InitUnpackSpec ==
    /\ collection = [status |-> "not_started", imagesCount |-> 0, previewImages |-> <<>>]
    /\ r2_index = [present |-> FALSE, data |-> EmptyIndex]
    /\ r2_images = {}
    /\ IngestIdle
    /\ search_request = NewSearchRequest("c")
    /\ SearchIdle
    /\ ZipIdle
    /\ CompareIdle
    /\ NzIdle
    /\ \E names \in SeqsUpTo(MemberNames, MaxPaths) \ {<<>>} :
          uz = [pc |-> "ready", members |-> AsMembers(names), image_files |-> <<>>,
                legacy |-> <<>>]
    /\ MxIdle
    /\ faults = 0

\* The selection of open_zip_and_list_images and that of stream_process_zip.
ListImages ==
    /\ uz.pc = "ready"
    /\ uz' = [uz EXCEPT !.pc = "done",
                        !.image_files = open_zip_and_list_images(uz.members),
                        !.legacy = LegacyImageFiles(uz.members)]
    /\ UNCHANGED <<ingestVars, searchVars, zipVars, cf, nz, mx, faults>>

NextUnpack == ListImages

SpecUnpack == InitUnpackSpec /\ [][NextUnpack]_vars

\* ================================================================ properties
PersistedCount == IF r2_index.present THEN Len(r2_index.data) ELSE 0

Returned(r) == run[r].pc = "done"
Succeeded(r) == Returned(r) /\ run[r].result = "success"

\* C1: every ingest run that has set Collection.status to processing has set it to
\* complete or to error when it returns; none returns leaving it at processing.
C1_NoRunReturnsAtProcessing ==
    \A r \in Runs : Returned(r) => run[r].own_status # "processing"

\* C2: with every update of one successful ingest run applied (none failed, none
\* still in flight), in whatever order the progress threads ran, the Collection is
\* complete with imagesCount = the merged index's entry count.
C2_ProgressCannotUndoCompletion ==
    \A r \in Runs :
        ( /\ Succeeded(r) /\ run[Other(r)].pc = "idle"
          /\ faults = 0 /\ threads = {} )
        => /\ collection.status = "complete"
           /\ collection.imagesCount = Len(run[r].merged_embeddings)

\* C6: a run that ends with status complete removes no index entry: every key
\* persisted when it began is persisted when it returns.
C6_CompleteRunKeepsEntries ==
    \A r \in Runs :
        (Succeeded(r) /\ run[r].own_status = "complete")
        => run[r].index_before \subseteq run[r].index_after

\* C7: a run's recorded entry is missing from the persisted index after that run
\* wrote it only because the other run wrote the whole blob later from a snapshot
\* that lacked the entry: the blob is then exactly the later writer's merge.
C7_LostUpdateIsLastWriterWins ==
    \A r \in Runs : \A k \in DictKeys(run[r].embeddings_data) :
        (run[r].write_order > 0 /\ k \notin IndexKeys)
        => LET o == Other(r)
           IN /\ run[o].write_order > run[r].write_order
              /\ k \notin DictKeys(run[o].existing_embeddings)
              /\ IndexKeys = DictKeys(run[o].existing_embeddings)
                             \cup DictKeys(run[o].embeddings_data)

\* C7 witness: both overlapping runs ended complete, nothing failed, and an entry
\* that one of them recorded and wrote is not in the persisted index.
C7_LostUpdateReached ==
    /\ \A r \in Runs : Succeeded(r) /\ run[r].own_status = "complete"
    /\ faults = 0
    /\ \E r \in Runs : /\ run[r].write_order > 0
                       /\ DictKeys(run[r].embeddings_data) \ IndexKeys # {}

\* C8: after two runs one after the other with disjoint normalized filenames (and no
\* failed call), the persisted index has as many entries as both runs indexed
\* together and imagesCount is that number.
C8_SequentialRunsAddUp ==
    ( /\ \A r \in Runs : Succeeded(r)
      /\ run[2].after_other
      /\ faults = 0
      /\ DictKeys(run[1].embeddings_data) \cap DictKeys(run[2].embeddings_data) = {} )
    => LET n == Len(run[1].embeddings_data) + Len(run[2].embeddings_data)
       IN PersistedCount = n /\ collection.imagesCount = n

\* C9: with no ingest run in progress and status complete, imagesCount is the
\* number of entries of the index blob held in the object store.
C9_CountMatchesPersistedIndex ==
    ( /\ \A r \in Runs : run[r].pc \in {"idle", "done"}
      /\ collection.status = "complete" )
    => collection.imagesCount = PersistedCount


\* C3: once a successful search has returned and every "processing" thread it
\* started has run (no call failing), the SearchRequest is complete, imagesFound
\* is the ranked list of match keys and processedImages equals totalImages.
C3_SearchProgressCannotUndoCompletion ==
    (search.pc = "done" /\ search.result = "success" /\ sthreads = {} /\ faults = 0)
    => /\ search_request.status = "complete"
       /\ search_request.imagesFound = ImagesFound(search.matches)
       /\ search_request.processedImages = search_request.totalImages

\* C4: a search call that fails after its SearchRequest was fetched has made the
\* update that marks the request "error" by the time it returns.
C4_FailedSearchMarksError ==
    (search.pc = "done" /\ search.fetched /\ search.result # "success")
    => search.marked # "no"

\* C5: while the collection searched is not complete, the SearchRequest record
\* stays as it was created and no index entry is scanned.
C5_RejectedSearchWritesNothing ==
    (search_request.collectionId = "c" /\ collection.status # "complete")
    => /\ search_request = NewSearchRequest("c")
       /\ ~search.scanned

\* C10: a member in which the extractor finds no face leaves no stored image
\* and no index entry, in the ingest endpoints and in the legacy /process-zip
\* (members whose name a member with faces shares are left out).
C10_ZeroFaceMembersLeaveNothing ==
    /\ \A r \in Runs :
         run[r].pc # "idle" =>
           LET listed == open_zip_and_list_images(Archives[run[r].req.body].members)
           IN \A i \in DOMAIN listed :
                listed[i].faces = <<>> =>
                  LET name == normalize_filename(listed[i].name, {})
                  IN /\ name \notin DictKeys(run[r].embeddings_data)
                     /\ R2Key(name) \notin r2_images
    /\ \A i \in DOMAIN zp.futures :
         LET f == zp.futures[i]
         IN (/\ f.faces = <<>>
             /\ ~\E j \in DOMAIN zp.futures :
                   zp.futures[j].image_name = f.image_name /\ zp.futures[j].faces # <<>>)
            => /\ GcsImagePath(f.image_name) \notin gcs_images
               /\ \A k \in DOMAIN zp.all_embeddings :
                     zp.all_embeddings[k].image_name # f.image_name


\* The threshold a search is to apply: the caller's when it gives one, else 0.6.
RequestedThreshold(inp) ==
    IF inp.threshold = <<>> THEN DefaultThreshold ELSE inp.threshold[1]

\* The entries a search is to return: those with a face of the reference's gender
\* whose similarity to the reference is above the threshold.
Qualifies(entry, ref, threshold) ==
    \E i \in DOMAIN entry.faces :
        /\ entry.faces[i].gender = ref.gender
        /\ Exceeds(Similarity(ref.embedding, entry.faces[i].embedding), threshold)

\* C11: the files a successful search returns are exactly the index entries with a
\* face of the reference's gender above the threshold the request asks for.
C11_SearchReturnsQualifyingEntries ==
    (search.pc = "done" /\ search.result = "success")
    => {search.matches[i].filename : i \in DOMAIN search.matches}
         = {search.embeddings_data[i].name : i \in
               {j \in DOMAIN search.embeddings_data :
                   Qualifies(search.embeddings_data[j], search.ref[1],
                             RequestedThreshold(search.input))}}


GenderName(gender) == IF gender = 1 THEN "male" ELSE "female"

\* C12: no face returned as a match has a gender other than the reference's:
\* in /search-photos every file matched holds a face of that gender, and in
\* /compare-faces every match carries that gender.
C12_NoMatchOfOtherGender ==
    /\ \A i \in DOMAIN search.matches :
          \E e \in Range(search.embeddings_data) :
              /\ e.name = search.matches[i].filename
              /\ \E f \in Range(e.faces) : f.gender = search.ref[1].gender
    /\ \A i \in DOMAIN cf.all_matches :
          cf.all_matches[i].gender = GenderName(cf.ref[1].gender)

\* C14: a search result names no file twice: the keys of imagesFound and the
\* image paths of the matches array are pairwise distinct.
C14_OneMatchPerFile ==
    /\ \A i, j \in DOMAIN search_request.imagesFound :
          i # j => search_request.imagesFound[i] # search_request.imagesFound[j]
    /\ \A i, j \in DOMAIN cf.matches :
          i # j => cf.matches[i].image_path # cf.matches[j].image_path

Min(a, b) == IF a <= b THEN a ELSE b

\* C16: with a cap N requested, the answer is the first min(N, matches) entries
\* of the sorted match list.
C16_CapKeepsFirstN ==
    (cf.pc = "done" /\ cf.status = 200 /\ cf.return_top_n # <<>>)
    => LET n == Min(cf.return_top_n[1], Len(cf.sorted))
       IN /\ Len(cf.matches) = n
          /\ \A i \in 1..n : cf.matches[i] = cf.sorted[i]


\* The match recorded for a key of imagesFound, and a file's place in the index.
MatchOf(key) == CHOOSE m \in Range(search.matches) : R2Key(m.filename) = key
IndexPos(name) ==
    CHOOSE i \in DOMAIN search.embeddings_data : search.embeddings_data[i].name = name

\* C15: imagesFound lists the keys of the matches, each once, by similarity
\* descending; matches of equal similarity stay in the index's iteration order.
C15_ImagesFoundSortedStable ==
    LET found == search_request.imagesFound
    IN found # <<>> =>
        /\ Len(found) = Len(search.matches)
        /\ Range(found) = {R2Key(m.filename) : m \in Range(search.matches)}
        /\ \A i, j \in DOMAIN found :
              i < j =>
                LET a == MatchOf(found[i])
                    b == MatchOf(found[j])
                IN /\ ~SimLess(a.similarity, b.similarity)
                   /\ ~SimLess(b.similarity, a.similarity)
                        => IndexPos(a.filename) < IndexPos(b.filename)

\* C15 witness: a delivered list of three matches whose best was scanned second
\* and whose other two tie.
C15_SortedWithTieReached ==
    LET found == search_request.imagesFound
    IN /\ search.pc = "done" /\ search.result = "success"
       /\ Len(found) = 3
       /\ found[1] = R2Key(search.matches[2].filename)
       /\ ~SimLess(search.matches[1].similarity, search.matches[3].similarity)
       /\ ~SimLess(search.matches[3].similarity, search.matches[1].similarity)


\* The length of an embedding of integer norm.
IntNorm(v) == CHOOSE n \in 0..10 : n * n = Dot(v, v)

\* The similarity of the face to the reference, times both norms and the
\* threshold's denominator, against the threshold scaled the same way.
ScaledSimilarity == Dot(mx.ref_embedding, mx.face.embedding) * mx.threshold.den
ScaledThreshold == mx.threshold.num * IntNorm(mx.ref_embedding) * IntNorm(mx.face.embedding)
GenderAccepted == ~mx.gender_match \/ mx.ref_gender = mx.face.gender

DictGet(d, k) == (CHOOSE e \in Range(d) : e.name = k).faces

\* C17: the index a run merges has the keys of the index it read and of its own
\* result, each once; a key of the result maps to the result's faces, a key only
\* in the index read keeps its faces.
C17_MergeIsKeywiseOverride ==
    \A r \in Runs :
        LET E == run[r].existing_embeddings
            R == run[r].embeddings_data
            merged == run[r].merged_embeddings
        IN merged # <<>> =>
            /\ DictKeys(merged) = DictKeys(E) \cup DictKeys(R)
            /\ Len(merged) = Cardinality(DictKeys(merged))
            /\ \A k \in DictKeys(R) : DictGet(merged, k) = DictGet(R, k)
            /\ \A k \in DictKeys(E) \ DictKeys(R) : DictGet(merged, k) = DictGet(E, k)

\* C17 witness: a run has merged a result that collides with the index it read on
\* a key whose faces differ, next to a key only the index had.
C17_CollisionMerged ==
    \E r \in Runs :
        LET E == run[r].existing_embeddings
            R == run[r].embeddings_data
        IN /\ run[r].merged_embeddings # <<>>
           /\ \E k \in DictKeys(E) \cap DictKeys(R) : DictGet(E, k) # DictGet(R, k)
           /\ DictKeys(E) \ DictKeys(R) # {}

\* C18: merging the persisted index with itself gives the same index, and a run
\* that succeeded with a result whose entries were all in the index already (no
\* other run since) leaves the persisted index as it was.
C18_MergeIsIdempotent ==
    /\ MergeIndex(r2_index.data, r2_index.data) = r2_index.data
    /\ \A r \in Runs :
          ( /\ Succeeded(r)
            /\ run[Other(r)].pc = "idle" \/ run[r].after_other
            /\ Range(run[r].embeddings_data) \subseteq Range(run[r].blob_before) )
          => r2_index.data = run[r].blob_before


\* C19: the names normalize_filename has returned for a list of paths, against
\* one used-name set that started empty, are pairwise distinct, non-empty and
\* made of letters, digits, dot, underscore and dash only.
C19_NormalizedNamesDistinctAndSafe ==
    /\ \A i, j \in DOMAIN nz.out : i # j => nz.out[i] # nz.out[j]
    /\ \A i \in DOMAIN nz.out :
          /\ nz.out[i] # <<>>
          /\ \A k \in DOMAIN nz.out[i] :
                nz.out[i][k] \in Range(UpperChars) \cup Range(LowerChars)
                                 \cup Range(DigitChars) \cup {".", "_", "-"}

\* C19 witness: three paths have been normalized, two of them with the same
\* basename and one holding a character outside the allowed set.
C19_CollidingPathsNormalized ==
    /\ nz.pc = "done"
    /\ Len(nz.out) = 3
    /\ \E i, j \in DOMAIN nz.input : i # j /\ PathName(nz.input[i]) = PathName(nz.input[j])
    /\ \E i \in DOMAIN nz.input : \E k \in DOMAIN nz.input[i] : nz.input[i][k] = " "


\* The selection an unpacker is to make: lowercase extension jpg, jpeg, png or
\* bmp, the path beginning neither with __MACOSX nor with a dot.
AllowedExtensions ==
    { <<".","j","p","g">>, <<".","j","p","e","g">>, <<".","p","n","g">>, <<".","b","m","p">> }

Selected(m) ==
    /\ PathSuffix(Lower(PathName(m.name))) \in AllowedExtensions
    /\ \E i \in 1..8 : i > Len(m.name) \/ m.name[i] # <<"_","_","M","A","C","O","S","X">>[i]
    /\ m.name # <<>> => m.name[1] # "."

\* C20: both unpackers return exactly the selected members, in archive order.
C20_UnpackersSelectSameImages ==
    uz.pc = "done" =>
        /\ uz.image_files = SelectSeq(uz.members, Selected)
        /\ uz.legacy = SelectSeq(uz.members, Selected)


\* C21: an ingest request rejected with a validation error (HTTP 400) on the new
\* collection, nothing else having run, leaves the Collection record, the index
\* and the stored objects as they were before the call.
C21_RejectedIngestWritesNothing ==
    \A r \in Runs :
        (Returned(r) /\ run[r].result = "http400" /\ run[Other(r)].pc = "idle")
        => /\ collection = [status |-> "not_started", imagesCount |-> 0, previewImages |-> <<>>]
           /\ r2_index = [present |-> FALSE, data |-> EmptyIndex]
           /\ r2_images = {}
           /\ r2_zips = ZipKeys


\* The members of a run's archive that the run lists, and of them those with
\* faces whose processing did not raise.
ListedMembers(r) ==
    open_zip_and_list_images(
        Archives[IF run[r].req.zip_key \in ZipKeys THEN ZipContent[run[r].req.zip_key]
                 ELSE run[r].req.body].members)

SurvivingMembers(r) ==
    SelectSeq(ListedMembers(r),
              LAMBDA m : m.faces # <<>> /\ m.name \notin Range(run[r].failed_members))

\* C22: a run in which the processing of a member raised (and no other call failed)
\* still returns success with status complete; its result holds the faces of every
\* other member with faces, in order, and counts those only.  In /process-zip
\* such a run returns its summary, with a result for every member and the failed
\* member neither counted as processed nor in the consolidated embeddings.
C22_MemberFailureDoesNotAbort ==
    /\ \A r \in Runs :
          ( /\ Returned(r) /\ run[r].failed_members # <<>>
            /\ run[r].req.kind = "job" => ingest_job[r].status = "completed" )
          => /\ run[r].result = "success"
             /\ run[r].own_status = "complete"
             /\ run[r].processed_count = Len(SurvivingMembers(r))
             /\ [i \in DOMAIN run[r].embeddings_data |-> run[r].embeddings_data[i].faces]
                  = [i \in DOMAIN SurvivingMembers(r) |-> SurvivingMembers(r)[i].faces]
    /\ ( /\ zp.pc = "done"
         /\ zp.read_failed # <<>> \/ \E i \in DOMAIN zp.results : zp.results[i].error )
       => /\ zp.result = "ok"
          /\ Len(zp.futures) + Len(zp.read_failed) = Len(zp.image_files)
          /\ zp.processed_count = Cardinality({i \in DOMAIN zp.results : ~zp.results[i].error})
          /\ \A i \in DOMAIN zp.all_embeddings : ~zp.all_embeddings[i].error


\* C23: a run whose write of the merged index to the object store failed returns
\* an error to the caller and has not set Collection.status to complete.
C23_FailedIndexWriteIsFatal ==
    \A r \in Runs :
        (Returned(r) /\ run[r].index_written \in {"false", "raise"})
        => /\ run[r].result # "success"
           /\ run[r].own_status # "complete"


\* C24: an ingest run or a search whose final update to complete failed does not
\* return success; one in which the only failed call was a progress update
\* returns success (the ingest run with status complete).
C24_TerminalUpdateFailureIsFatal ==
    /\ \A r \in Runs :
          /\ (Returned(r) /\ run[r].final_update = "failed") => run[r].result # "success"
          /\ ( /\ Returned(r) /\ run[r].progress_failed /\ faults = 1
               /\ run[r].req.kind = "job" => ingest_job[r].status = "completed" )
             => run[r].result = "success" /\ run[r].own_status = "complete"
    /\ (search.pc = "done" /\ search.final_update = "failed") => search.result # "success"
    /\ (search.pc = "done" /\ search.progress_failed /\ faults = 1 /\ search.scanned)
       => search.result = "success" /\ search.final_update = "ok"


\* C25: a run that downloaded its archive by storage key has attempted to delete
\* that object when it returns, whether it succeeded or failed; a deletion that
\* fails leaves the outcome as it was (success after the final update, else 500).
C25_SourceZipDeletionAttempted ==
    \A r \in Runs :
        /\ (Returned(r) /\ run[r].downloaded) => run[r].delete_attempted # "no"
        /\ (Returned(r) /\ run[r].delete_attempted = "failed")
           => run[r].result = IF run[r].final_update # "none" THEN "success" ELSE "http500"


\* C26: in /process-zip with max_workers = N no more than N members are being
\* processed at any time; every member listed is submitted at most once, in order,
\* and run by a worker at most once; when the run has ended every listed member
\* has been run exactly once and its result collected.
C26_PoolBoundedEachMemberOnce ==
    /\ zp.pc # "idle" =>
          Cardinality({i \in DOMAIN zp.futures : zp.futures[i].state = "running"})
             <= zp.max_workers
    /\ Len(zp.futures) <= Len(zp.image_files)
    /\ \A i \in DOMAIN zp.futures :
          /\ zp.futures[i].image_name = PathName(zp.image_files[i].name)
          /\ zp.futures[i].started <= 1
          /\ zp.futures[i].state = "queued" <=> zp.futures[i].started = 0
    /\ zp.pc = "done" =>
          /\ Len(zp.futures) = Len(zp.image_files)
          /\ zp.collected = Len(zp.futures)
          /\ \A i \in DOMAIN zp.futures :
                zp.futures[i].state = "done" /\ zp.futures[i].started = 1


\* C27: while one ingest run is the only one at work, the persisted index is
\* either the index as it was when the run began, not yet written by the run, or
\* the index the run wrote once every member was processed, holding every entry
\* of the run's result with its faces.
C27_IndexNeverHoldsPartOfRun ==
    \A r \in Runs :
        (run[r].pc # "idle" /\ (run[Other(r)].pc = "idle" \/ run[r].after_other))
        => \/ run[r].index_written # "ok" /\ r2_index.data = run[r].blob_before
           \/ /\ run[r].index_written = "ok"
              /\ run[r].todo = <<>>
              /\ r2_index.present
              /\ \A i \in DOMAIN run[r].embeddings_data :
                    LET e == run[r].embeddings_data[i]
                    IN \E j \in DOMAIN r2_index.data :
                          r2_index.data[j].name = e.name /\ r2_index.data[j].faces = e.faces

\* C27 witness: a second run, begun on a non-empty index, has processed two
\* members and written the index.
C27_SecondRunWroteTwoEntries ==
    /\ run[2].after_other
    /\ run[2].blob_before # EmptyIndex
    /\ run[2].index_written = "ok"
    /\ Len(run[2].embeddings_data) = 2


\* The keys of the images a run stored, in processing order.
StoredKeys(r) ==
    SelectSeq([i \in DOMAIN run[r].embeddings_data |-> R2Key(run[r].embeddings_data[i].name)],
              LAMBDA k : k \in r2_images)

\* C28: after a successful run that no other run overlaps, previewImages is the
\* prior preview list followed by the run's stored-image keys that the prior list
\* lacks, in processing order, cut to 50 entries; it names no key twice.
C28_PreviewIsCappedOrderedUnion ==
    \A r \in Runs :
        (Succeeded(r) /\ (run[Other(r)].pc = "idle" \/ run[r].after_other))
        => LET prior == run[r].existing_preview_images
               union == prior \o SelectSeq(StoredKeys(r), LAMBDA k : k \notin Range(prior))
           IN /\ collection.previewImages = SubSeq(union, 1, Min(Len(union), 50))
              /\ Len(collection.previewImages) = Cardinality(Range(collection.previewImages))


\* C29: the progress notifications of a run that has returned were issued at
\* processed counts that are multiples of 10 or the run's final count, so at most
\* one per 10 items and one more; an /upload-collection run that processed
\* anything issued its last one with the final count.
C29_IngestProgressThrottled ==
    \A r \in Runs :
        Returned(r) =>
            /\ \A i \in DOMAIN run[r].notified :
                  run[r].notified[i] % 10 = 0 \/ run[r].notified[i] = run[r].processed_count
            /\ Len(run[r].notified) <= (run[r].processed_count \div 10) + 1
            /\ (run[r].req.kind = "upload" /\ run[r].processed_count > 0)
               => /\ run[r].notified # <<>>
                  /\ run[r].notified[Len(run[r].notified)] = run[r].processed_count


\* C30: the progress updates a scan has issued so far carry, in order, exactly
\* the counts i of the entries processed for which i is a multiple of 10 or i is
\* the number of entries of the loaded index; after the last entry of a
\* non-empty index the latest update carries that number.
C30_SearchProgressEveryTenAndLast ==
    LET n == Len(search.embeddings_data)
        due == {i \in 1..search.processed_count : i % 10 = 0 \/ i = n}
    IN /\ Len(search.reports) = Cardinality(due)
       /\ {search.reports[k] : k \in DOMAIN search.reports} = due
       /\ \A j, k \in DOMAIN search.reports : j < k => search.reports[j] < search.reports[k]
       /\ (n > 0 /\ search.processed_count = n) => search.reports[Len(search.reports)] = n

\* C30 witness: a scan of eleven entries has finished, having reported after the
\* tenth and after the eleventh.
C30_ElevenEntriesScanned ==
    /\ search.pc = "done" /\ search.result = "success"
    /\ search.processed_count = 11
    /\ search.reports = <<10, 11>>


\* An embedding of norm zero.
ZeroNorm(v) == Dot(v, v) = 0

C32_SimilarityIsSymmetric ==
    (mx.pc = "done" /\ ~ZeroNorm(mx.ref_embedding) /\ ~ZeroNorm(mx.face.embedding))
    => /\ mx.result.similarity = mx.swapped.similarity
       /\ mx.result.is_match = mx.swapped.is_match

\* C32 witness: two different embeddings of different norm have been compared
\* both ways round and match.
C32_DifferentVectorsCompared ==
    /\ mx.pc = "done"
    /\ mx.ref_embedding = <<1, 0>> /\ mx.face.embedding = <<4, 3>>
    /\ mx.threshold = DefaultThreshold
    /\ mx.result.is_match /\ mx.swapped.is_match


\* The failure a search call is to report for its input and the records it
\* finds: that of the first check that fails, "none" when all four pass.
FirstFailedCheck ==
    IF search.input.id # "s1" THEN "http404_request"
    ELSE IF search_request.collectionId # "c" THEN "http404_collection"
    ELSE IF collection.status # "complete" THEN "http400_not_ready"
    ELSE IF search.input.reference = <<>> THEN "http400_no_face"
    ELSE "none"

QualifiesAt(entry, i) ==
    /\ entry.faces[i].gender = search.ref[1].gender
    /\ Exceeds(Similarity(search.ref[1].embedding, entry.faces[i].embedding), DefaultThreshold)

\* C34: the similarity recorded for a matched file is that of the first face, in
\* the file's stored order, of the reference's gender and above the threshold; no
\* later face of the file decides it, whatever its score.
C34_FirstQualifyingFaceIsRecorded ==
    \A k \in DOMAIN search.matches :
        LET m == search.matches[k]
            entry == CHOOSE e \in Range(search.embeddings_data) : e.name = m.filename
        IN \E i \in DOMAIN entry.faces :
              /\ QualifiesAt(entry, i)
              /\ \A j \in 1..(i - 1) : ~QualifiesAt(entry, j)
              /\ m.similarity = Similarity(search.ref[1].embedding, entry.faces[i].embedding)

\* C34 witness: a finished search has recorded a file with the similarity of its
\* first qualifying face while a later face of the file scores higher.
C34_LaterFaceScoresHigher ==
    /\ search.pc = "done" /\ search.result = "success"
    /\ \E k \in DOMAIN search.matches :
          LET m == search.matches[k]
              entry == CHOOSE e \in Range(search.embeddings_data) : e.name = m.filename
          IN \E j \in DOMAIN entry.faces :
                /\ QualifiesAt(entry, j)
                /\ SimLess(m.similarity,
                           Similarity(search.ref[1].embedding, entry.faces[j].embedding))


\* The names returned before the i-th call, and the i-th path's sanitized
\* basename with suffix -k before its extension.
UsedBefore(i) == {nz.out[j] : j \in 1..(i - 1)}
Suffixed(name, k) == PathStem(name) \o <<"-">> \o Decimal(k) \o PathSuffix(name)

\* C35: each call of normalize_filename returns the sanitized basename when no
\* earlier call returned it, else that name with -k before the extension for the
\* smallest k >= 1 that no earlier call returned; the used-name set holds exactly
\* the names returned; an empty basename is sanitized to "file".
C35_FirstFreeNameIsReturned ==
    /\ nz.used_names = Range(nz.out)
    /\ \A i \in DOMAIN nz.out :
          LET sanitized == Sanitize(PathName(nz.input[i]))
          IN /\ nz.input[i] = <<>> => sanitized = <<"f","i","l","e">>
             /\ IF sanitized \notin UsedBefore(i) THEN nz.out[i] = sanitized
                ELSE \E k \in 1..Len(nz.input) :
                        /\ nz.out[i] = Suffixed(sanitized, k)
                        /\ nz.out[i] \notin UsedBefore(i)
                        /\ \A n \in 1..(k - 1) : Suffixed(sanitized, n) \in UsedBefore(i)

\* C35 witness: x-1.jpg, then two members named x.jpg: the second x.jpg finds
\* x-1.jpg taken and becomes x-2.jpg.
C35_SecondSuffixReached ==
    /\ nz.pc = "done"
    /\ nz.out = << <<"x","-","1",".","j","p","g">>, <<"x",".","j","p","g">>,
                   <<"x","-","2",".","j","p","g">> >>


\* C36: the members of one run in which faces were found are stored under
\* pairwise distinct keys and indexed under pairwise distinct names, so a run's
\* result has as many entries as the run counts processed; in /process-zip
\* the results with faces name pairwise distinct image paths.
C36_MembersNeverCollide ==
    /\ \A r \in Runs :
          LET names == [i \in DOMAIN run[r].embeddings_data |-> run[r].embeddings_data[i].name]
          IN /\ Len(names) = run[r].processed_count
             /\ Cardinality(Range(names)) = run[r].processed_count
             /\ Cardinality({R2Key(n) : n \in Range(names)}) = run[r].processed_count
    /\ \A i, j \in DOMAIN zp.all_embeddings :
          i # j => zp.all_embeddings[i].image_path # zp.all_embeddings[j].image_path


\* C37: a /process-ingest-job call that passed field validation has, when it
\* returns, left its IngestJob completed with the processed count if it
\* succeeded and failed if it did not (collection or archive not found included);
\* a call that failed after it set the Collection to processing has marked the
\* Collection error.
C37_JobEndsInTerminalState ==
    \A r \in Runs :
        (Returned(r) /\ run[r].req.kind = "job" /\ run[r].result # "http400")
        => /\ run[r].result = "success"
              => /\ ingest_job[r].status = "completed"
                 /\ ingest_job[r].processedImages = run[r].processed_count
           /\ run[r].result # "success"
              => /\ ingest_job[r].status = "failed"
                 /\ run[r].own_status # "none" => run[r].own_status = "error"


\* C38: for every filename of the persisted index an image object is stored
\* under the collection's key for it, and every key a search has put in
\* imagesFound names a stored image.
C38_IndexedFilesAreStored ==
    /\ \A k \in IndexKeys : R2Key(k) \in r2_images
    /\ \A i \in DOMAIN search_request.imagesFound :
          search_request.imagesFound[i] \in r2_images


\* C39: a step of the search call or of one of its update threads leaves the
\* Collection record, the persisted index, the stored images and the stored
\* archives as they are; a step of an ingest run or of one of its progress
\* threads leaves the SearchRequest record as it is.
C39_SearchAndIngestKeepToTheirRecords ==
    [][ /\ (search' # search \/ sthreads' # sthreads)
           => UNCHANGED <<collection, r2_index, r2_images, r2_zips>>
        /\ (run' # run \/ threads' # threads)
           => UNCHANGED search_request ]_vars

\* C39 witness: a search has completed on the index an ingest run wrote, and its
\* result is in the SearchRequest.
C39_SearchedAfterIngest ==
    /\ Succeeded(1)
    /\ search.pc = "done" /\ search.result = "success"
    /\ search.matches # <<>>
    /\ search_request.status = "complete"
    /\ collection.status = "complete"

=============================================================================
